---- MODULE Spec2Model ----
(***************************************************************************)
(* Quota-gated MCQ generation pipeline of Brainlot-backend.                *)
(*                                                                         *)
(* The generate-mcqs edge function (Gemini variant: global counter, user   *)
(* limits, content cache, provider retry loop) is modelled request by      *)
(* request; every `await` of the handler is a step boundary, the code      *)
(* between two awaits is one atomic step.  The SQL functions               *)
(* get_user_usage_stats and increment_upload_count run under READ          *)
(* COMMITTED: their SELECT and their UPDATE are separate steps.            *)
(*                                                                         *)
(* Time is counted in seconds since a UTC midnight.                        *)
(***************************************************************************)
EXTENDS Integers, Sequences, FiniteSets, TLC

VARIABLES
    now,                    \* Date.now() / SQL now(), in seconds
    usageRows,              \* table user_usage_stats: user -> row
    subRows,                \* table user_subscriptions: user -> rows
    globalUsageCount,       \* module variable of the Gemini function
    globalUsageResetTime,   \* module variable of the Gemini function
    mcqCache,               \* module Map: content hash -> entry
    req,                    \* per request: position and locals of the handler
    baseline,               \* history: user -> uploads_today in force at T0
    unit                    \* one function studied on its own: arguments, result

vars == <<now, usageRows, subRows, globalUsageCount, globalUsageResetTime,
          mcqCache, req, baseline, unit>>

----------------------------------------------------------------------------
(* Program constants *)

DAY == 24 * 60 * 60
GLOBAL_WINDOW == 30 * DAY
MAX_GLOBAL_USAGE == 500000
CACHE_DURATION == 30 * 60
CACHE_MAX_ENTRIES == 1000
MAX_RETRIES == 3
BACKOFF_MS == 2000

USER_LIMITS == [FREE |-> [daily_limit |-> 5], PRO |-> [daily_limit |-> 50]]

----------------------------------------------------------------------------
(* Bounds of the model *)

MaxTimeIdx == 2             \* how far along TimeLine the clock may advance

Requests == {1, 2}          \* the handler invocations that may overlap
Users == {"u1", "u2"}
NoUser == "nobody"

T0 == 10 * DAY              \* the instant the model starts at (a UTC midnight)

\* The instants the clock visits, in order.
TimeLine == <<T0, T0 + CACHE_DURATION, T0 + DAY, T0 + DAY + 1>>

Times == {TimeLine[i] : i \in 1 .. MaxTimeIdx}

----------------------------------------------------------------------------
(* Values *)

\* A row of user_usage_stats; exists = FALSE stands for "no row for the user".
Row(u, d) == [exists |-> TRUE, uploads_today |-> u, daily_reset_at |-> d]
NoRow == [exists |-> FALSE, uploads_today |-> 0, daily_reset_at |-> 0]

\* date_trunc('day', t) + interval '1 day'  and  setUTCHours(24, 0, 0, 0)
NextMidnight(t) == ((t \div DAY) + 1) * DAY

\* MCQ objects as the provider may produce them: the number of options and
\* the answer index.  The provider is not bound by the prompt, so an object
\* with 3 options or an index out of 0 .. 3 may come back.
GoodMCQ == [options |-> 4, answer_index |-> 1]
BadMCQ == [options |-> 3, answer_index |-> 4]
MCQArrays == {<<>>, <<GoodMCQ>>, <<BadMCQ>>}

\* Request bodies: text_content / file_data are strings (sequences of char
\* codes), "" is the absent or empty field.
TextA == <<97>>
TextB == <<98, 99>>
Body(t, f, m) == [text_content |-> t, file_data |-> f, mime_type |-> m]
Bodies == {Body(TextA, <<>>, ""), Body(<<>>, TextB, "application/pdf"),
           Body(<<>>, TextA, ""), Body(<<>>, <<>>, "")}

----------------------------------------------------------------------------
(* Pure functions of the edge function *)

\* generateFileHash: hash = hash * 31 + charCode over the string, then
\* Math.abs(hash).toString(36).  The 32-bit wrap (hash & hash) does not
\* happen for the short strings of the model; toString(36) is one-to-one on
\* the non-negative integers, so the key is denoted by the integer itself.
RECURSIVE HashFold(_, _)
HashFold(h, s) ==
    IF s = <<>> THEN h ELSE HashFold(((h * 32) - h) + Head(s), Tail(s))

Abs(x) == IF x < 0 THEN -x ELSE x

generateFileHash(fileData) == Abs(HashFold(0, fileData))

Hashes == {generateFileHash(b.text_content) : b \in Bodies} \cup
          {generateFileHash(b.file_data) : b \in Bodies}

NoEntry == [present |-> FALSE, mcqs |-> <<>>, timestamp |-> 0]
Entry(m, t) == [present |-> TRUE, mcqs |-> m, timestamp |-> t]

\* Mutant of getCachedMCQs: the age test the wrong way round.
getCachedMCQs_Inverted(cache, h, t) ==
    IF cache[h].present /\ (t - cache[h].timestamp) > CACHE_DURATION
    THEN [hit |-> TRUE, mcqs |-> cache[h].mcqs, cache |-> cache]
    ELSE [hit |-> FALSE, mcqs |-> <<>>,
          cache |-> [cache EXCEPT ![h] = [present |-> FALSE, mcqs |-> <<>>,
                                          timestamp |-> 0]]]

\* getCachedMCQs: the entry's mcqs when it is younger than CACHE_DURATION,
\* otherwise null; an expired entry is deleted from the map.
CacheLive(cache, h, t) ==
    cache[h].present /\ (t - cache[h].timestamp) < CACHE_DURATION

getCachedMCQs(cache, h, t) ==
    IF CacheLive(cache, h, t)
    THEN [hit |-> TRUE, mcqs |-> cache[h].mcqs, cache |-> cache]
    ELSE [hit |-> FALSE, mcqs |-> <<>>,
          cache |-> [cache EXCEPT ![h] = NoEntry]]

CacheSize(cache) == Cardinality({h \in DOMAIN cache : cache[h].present})

\* Mutant of cacheMCQs: the cleanup drops every other entry, live or not.
cacheMCQs_EvictAll(cache, h, m, t) ==
    LET c1 == [cache EXCEPT ![h] = Entry(m, t)]
    IN  IF CacheSize(c1) > CACHE_MAX_ENTRIES
        THEN [k \in DOMAIN c1 |-> IF k = h THEN c1[k] ELSE NoEntry]
        ELSE c1

\* cacheMCQs: set the entry, then, when the map holds more than 1000
\* entries, delete every entry older than CACHE_DURATION.
cacheMCQs(cache, h, m, t) ==
    LET c1 == [cache EXCEPT ![h] = Entry(m, t)]
    IN  IF CacheSize(c1) > CACHE_MAX_ENTRIES
        THEN [k \in DOMAIN c1 |->
                IF c1[k].present /\ (t - c1[k].timestamp) > CACHE_DURATION
                THEN NoEntry ELSE c1[k]]
        ELSE c1

\* Mutant of incrementGlobalUsage: the counter is advanced twice.
incrementGlobalUsage_Twice(count) == count + 2

\* incrementGlobalUsage: globalUsageCount++.
incrementGlobalUsage(count) == count + 1

\* Mutant of checkGlobalUsage: the ceiling test lets the count MAX through.
checkGlobalUsage_StrictlyOver(count, resetTime, t) ==
    LET doReset == t > resetTime
        c == IF doReset THEN 0 ELSE count
        rt == IF doReset THEN t + GLOBAL_WINDOW ELSE resetTime
    IN  [count |-> c, resetTime |-> rt,
         result |-> IF c > MAX_GLOBAL_USAGE
                    THEN [allowed |-> FALSE, remaining |-> 0, resetTime |-> rt]
                    ELSE [allowed |-> TRUE,
                          remaining |-> MAX_GLOBAL_USAGE - c,
                          resetTime |-> rt]]

\* checkGlobalUsage: lazy monthly reset, then the ceiling test.  Returns the
\* new module variables together with the function's result.
checkGlobalUsage(count, resetTime, t) ==
    LET doReset == t > resetTime
        c == IF doReset THEN 0 ELSE count
        rt == IF doReset THEN t + GLOBAL_WINDOW ELSE resetTime
    IN  [count |-> c, resetTime |-> rt,
         result |-> IF c >= MAX_GLOBAL_USAGE
                    THEN [allowed |-> FALSE, remaining |-> 0, resetTime |-> rt]
                    ELSE [allowed |-> TRUE,
                          remaining |-> MAX_GLOBAL_USAGE - c,
                          resetTime |-> rt]]

\* Mutant of getUserSubscription: the first active row instead of .single().
getUserSubscription_FirstRow(rows, outcome) ==
    LET active == SelectSeq(rows, LAMBDA s : s.status = "active")
    IN  IF outcome # "ok" \/ active = <<>> THEN "FREE"
        ELSE IF active[1].plan_type = "pro" THEN "PRO" ELSE "FREE"

\* The subscription query: rows of the user with status = 'active', then
\* .single(), which reports an error unless exactly one row is left.
ActiveRows(rows) == SelectSeq(rows, LAMBDA s : s.status = "active")

\* getUserSubscription; outcome is what the store does with the query.
getUserSubscription(rows, outcome) ==
    IF outcome = "throw" THEN "FREE"
    ELSE IF outcome = "error" \/ Len(ActiveRows(rows)) # 1 THEN "FREE"
    ELSE IF ActiveRows(rows)[1].plan_type = "pro" THEN "PRO" ELSE "FREE"

\* Mutants of checkUserLimits: the limit test off by one, either way.
checkUserLimits_StrictlyOver(subscription, usage) ==
    LET limits == USER_LIMITS[subscription]
    IN  IF usage.uploads_today > limits.daily_limit
        THEN [allowed |-> FALSE, limitType |-> "daily", remaining |-> 0,
              resetTime |-> usage.daily_reset_at]
        ELSE [allowed |-> TRUE, limitType |-> "null",
              remaining |-> limits.daily_limit - usage.uploads_today,
              resetTime |-> usage.daily_reset_at]

checkUserLimits_EarlyReject(subscription, usage) ==
    LET limits == USER_LIMITS[subscription]
    IN  IF usage.uploads_today + 1 >= limits.daily_limit
        THEN [allowed |-> FALSE, limitType |-> "daily", remaining |-> 0,
              resetTime |-> usage.daily_reset_at]
        ELSE [allowed |-> TRUE, limitType |-> "null",
              remaining |-> limits.daily_limit - usage.uploads_today,
              resetTime |-> usage.daily_reset_at]

\* checkUserLimits, given the snapshot getUserUsageStatsFromDB returned.
checkUserLimits(subscription, usage) ==
    LET limits == USER_LIMITS[subscription]
    IN  IF usage.uploads_today >= limits.daily_limit
        THEN [allowed |-> FALSE, limitType |-> "daily", remaining |-> 0,
              resetTime |-> usage.daily_reset_at]
        ELSE [allowed |-> TRUE, limitType |-> "null",
              remaining |-> limits.daily_limit - usage.uploads_today,
              resetTime |-> usage.daily_reset_at]

\* Snapshot returned by getUserUsageStatsFromDB when it has no row to report.
DefaultUsage(t) == [uploads_today |-> 0, daily_reset_at |-> t + DAY]

Snapshot(row) == [uploads_today |-> row.uploads_today,
                  daily_reset_at |-> row.daily_reset_at]

----------------------------------------------------------------------------
(* The provider call: callGeminiWithText / callGeminiWithFileData /         *)
(* callGroqWithText share one retry loop.                                   *)

\* Raw text of a provider answer: how the MCQ array is wrapped, and the array.
RawText(w, a) == [wrap |-> w, arr |-> a]
EmptyArrayLiteral == RawText("array", <<>>)          \* the string "[]"
RawTexts == {RawText(w, a) : w \in {"array", "fenced", "object"},
                             a \in MCQArrays}
            \cup {RawText("garbage", <<>>)}

\* One HTTP answer: status 0 stands for fetch() throwing (no response); the
\* body of a 2xx answer is JSON with the text field, JSON without it, or not
\* JSON at all.
Response(st, b, t) == [status |-> st, body |-> b, text |-> t]
ProviderResponses ==
    {Response(200, "text", t) : t \in RawTexts}
    \cup {Response(200, "nofield", EmptyArrayLiteral),
          Response(200, "notjson", EmptyArrayLiteral)}
    \cup {Response(st, "error", EmptyArrayLiteral) : st \in {0, 400, 429, 500, 503}}

ResOk(res) == res.status >= 200 /\ res.status <= 299

\* State of one call: the loop variable, the waits made so far (ms), and how
\* the call ended.
CallStart == [attempt |-> 1, waits |-> <<>>, outcome |-> "pending",
              text |-> EmptyArrayLiteral, error |-> "none"]

\* Mutant of AnswerText: an answer without the text field gives an empty text.
AnswerText_Empty(res) ==
    IF res.body = "text" THEN res.text ELSE RawText("garbage", <<>>)

\* What the call returns for a 2xx answer: the text field of the first
\* candidate (choice), and "[]" when the answer has no such field.
AnswerText(res) ==
    IF res.body = "text" THEN res.text ELSE EmptyArrayLiteral

\* Mutant of CatchBlock: after the last attempt the loop starts over.
CatchBlock_StartOver(c, err) ==
    IF c.attempt = MAX_RETRIES
    THEN [c EXCEPT !.waits = <<>>, !.attempt = 1]
    ELSE [c EXCEPT !.waits = Append(@, BACKOFF_MS * c.attempt),
                   !.attempt = @ + 1]

\* Mutant of CatchBlock: the error is rethrown on whichever attempt it came.
CatchBlock_Rethrow(c, err) ==
    [c EXCEPT !.outcome = "thrown", !.error = err]

\* The catch block of the loop: rethrow on the last attempt, otherwise wait
\* 2000 * attempt ms and go round again.
CatchBlock(c, err) ==
    IF c.attempt = MAX_RETRIES
    THEN [c EXCEPT !.outcome = "thrown", !.error = err]
    ELSE [c EXCEPT !.waits = Append(@, BACKOFF_MS * c.attempt),
                   !.attempt = @ + 1]

\* Mutant of ProviderAttempt: a 5xx answer is retried on the last attempt too.
ProviderAttempt_RetryOnLast(c, res) ==
    IF res.status = 0 THEN CatchBlock(c, "fetch")
    ELSE IF ~ResOk(res)
         THEN IF res.status >= 500 /\ c.attempt <= MAX_RETRIES
              THEN [c EXCEPT !.waits = Append(@, BACKOFF_MS * c.attempt),
                             !.attempt = @ + 1]
              ELSE CatchBlock(c, "api")
    ELSE IF res.body = "notjson" THEN CatchBlock(c, "json")
    ELSE [c EXCEPT !.outcome = "returned", !.text = AnswerText(res)]

\* One iteration of the loop body, for the answer res of this attempt.
ProviderAttempt(c, res) ==
    IF res.status = 0 THEN CatchBlock(c, "fetch")
    ELSE IF ~ResOk(res)
         THEN IF res.status >= 500 /\ c.attempt < MAX_RETRIES
              THEN [c EXCEPT !.waits = Append(@, BACKOFF_MS * c.attempt),
                             !.attempt = @ + 1]
              ELSE CatchBlock(c, "api")       \* throw inside try
    ELSE IF res.body = "notjson" THEN CatchBlock(c, "json")
    ELSE [c EXCEPT !.outcome = "returned", !.text = AnswerText(res)]

\* The texts that carry a JSON array the Gemini handler can get at: bare, or
\* inside a fenced json block.
IsArrayText(raw) == raw.wrap \in {"array", "fenced"}

\* Mutant of ParseGemini: text without an array is taken as the empty array.
ParseGemini_Lenient(raw) ==
    IF raw.wrap \in {"array", "fenced"} THEN [ok |-> TRUE, mcqs |-> raw.arr]
    ELSE [ok |-> TRUE, mcqs |-> <<>>]

\* Parse of the raw text in the Gemini handler: JSON.parse, then the fenced
\* json block, then the bracketed array pattern; the value must be an array.
ParseGemini(raw) ==
    CASE raw.wrap = "array"   -> [ok |-> TRUE, mcqs |-> raw.arr]
      [] raw.wrap = "fenced"  -> [ok |-> TRUE, mcqs |-> raw.arr]
      [] raw.wrap = "object"  -> [ok |-> FALSE, mcqs |-> <<>>]
      [] OTHER                -> [ok |-> FALSE, mcqs |-> <<>>]

----------------------------------------------------------------------------
(* Requests *)

\* What a client sends: method, Authorization header, the user the token
\* resolves to (NoUser: auth.getUser rejects it), and the JSON body.
Input(m, h, w, b) == [method |-> m, header |-> h, who |-> w, body |-> b]
Inputs ==
    {Input("POST", "Bearer", "u1", b) : b \in Bodies}
    \cup {Input("POST", "Bearer", "u2", Body(TextA, <<>>, "")),
          Input("GET", "Bearer", "u1", Body(TextA, <<>>, "")),
          Input("POST", "none", "u1", Body(TextA, <<>>, "")),
          Input("POST", "Bearer", NoUser, Body(TextA, <<>>, ""))}

NoLimits == [allowed |-> FALSE, limitType |-> "null", remaining |-> 0,
             resetTime |-> 0]
NoGlobal == [allowed |-> FALSE, remaining |-> 0, resetTime |-> 0]
NoWrite == [reset |-> FALSE, uploads_today |-> 0, daily_reset_at |-> 0]

ReqIdle ==
    [pc |-> "idle",
     in |-> Input("POST", "Bearer", NoUser, Body(<<>>, <<>>, "")),
     globalUsage |-> NoGlobal,
     subscription |-> "FREE",
     now_time |-> 0,              \* SQL local now_time
     has_row |-> FALSE,           \* SQL: the SELECT found a row
     current_reset_at |-> 0,      \* SQL local current_reset_at
     usage |-> DefaultUsage(0),   \* result of getUserUsageStatsFromDB
     userLimits |-> NoLimits,
     call |-> CallStart,          \* locals of the provider call in progress
     mcqs |-> <<>>,
     write |-> NoWrite,           \* fallback update prepared by incrementUserUsage
     status |-> 0,                \* HTTP status of the response, 0: none yet
     cached |-> FALSE,
     remaining |-> 0,
     limit_type |-> "null",
     \* history
     readStale |-> FALSE,         \* the stored row was stale when the snapshot was read
     readAt |-> 0,                \* the time of that read
     resets |-> 0,                \* resets of the row made by this request's read
     gen |-> "none",              \* the provider's answer: "array", "unparsable", "failed"
     fetched |-> FALSE,           \* the request issued a provider call
     incs |-> 0,                  \* writes this request made to advance uploads_today
     globalIncs |-> 0]            \* calls of incrementGlobalUsage by this request

\* The locals of a finished SQL function or fallback are gone.
Return(rq) == [rq EXCEPT !.now_time = 0, !.has_row = FALSE,
                         !.current_reset_at = 0, !.write = NoWrite]

Respond(rq, st) == [Return(rq) EXCEPT !.pc = "done", !.status = st]

Stale(row, t) == row.exists /\ t >= row.daily_reset_at

\* Handler up to `await supabaseClient.auth.getUser(token)`.
Start(r) ==
    /\ req[r].pc = "idle"
    /\ \E in \in Inputs :
         LET rq == [req[r] EXCEPT !.in = in]
             g == checkGlobalUsage(globalUsageCount, globalUsageResetTime, now)
         IN  IF in.method # "POST"
             THEN /\ req' = [req EXCEPT ![r] = Respond(rq, 405)]
                  /\ UNCHANGED <<globalUsageCount, globalUsageResetTime>>
             ELSE /\ globalUsageCount' = g.count
                  /\ globalUsageResetTime' = g.resetTime
                  /\ req' = [req EXCEPT ![r] =
                        IF ~g.result.allowed
                        THEN Respond([rq EXCEPT !.globalUsage = g.result], 503)
                        ELSE IF in.header # "Bearer"
                        THEN Respond([rq EXCEPT !.globalUsage = g.result], 401)
                        ELSE [rq EXCEPT !.globalUsage = g.result,
                                        !.pc = "auth"]]
    /\ UNCHANGED <<now, usageRows, subRows, baseline, unit, mcqCache>>

\* auth.getUser resolves.
Auth(r) ==
    /\ req[r].pc = "auth"
    /\ req' = [req EXCEPT ![r] =
                 IF req[r].in.who = NoUser THEN Respond(req[r], 401)
                 ELSE [req[r] EXCEPT !.pc = "sub"]]
    /\ UNCHANGED <<now, usageRows, subRows, baseline, unit, globalUsageCount,
                   globalUsageResetTime, mcqCache>>

\* Mutant of SubResolved: a failed lookup ends the request with 500.
SubResolved_FailClosed(rq, rows, outcome) ==
    IF outcome # "ok" THEN Respond(rq, 500)
    ELSE [rq EXCEPT !.subscription = getUserSubscription(rows, outcome),
                    !.pc = "usage"]

\* The handler takes what getUserSubscription returned and goes on to
\* checkUserLimits, whatever the store did with the query.
SubResolved(rq, rows, outcome) ==
    [rq EXCEPT !.subscription = getUserSubscription(rows, outcome),
               !.pc = "usage"]

\* getUserSubscription resolves.
GetSub(r) ==
    /\ req[r].pc = "sub"
    /\ \E outcome \in {"ok", "error", "throw"} :
         req' = [req EXCEPT ![r] =
                   SubResolved(req[r], subRows[req[r].in.who], outcome)]
    /\ UNCHANGED <<now, usageRows, subRows, baseline, unit, globalUsageCount,
                   globalUsageResetTime, mcqCache>>

\* Mutant of AfterUsage: the handler goes on whatever checkUserLimits said.
AfterUsage_NoGate(rq, usage) ==
    [Return([rq EXCEPT !.usage = usage,
                       !.userLimits = checkUserLimits(rq.subscription, usage)])
        EXCEPT !.pc = "body"]

\* checkUserLimits on the snapshot, and the 429 answer of the handler.
AfterUsage(rq, usage) ==
    LET lim == checkUserLimits(rq.subscription, usage)
        r1 == [rq EXCEPT !.usage = usage, !.userLimits = lim]
    IN  IF ~lim.allowed
        THEN Respond([r1 EXCEPT !.remaining = 0,
                                !.limit_type = lim.limitType], 429)
        ELSE [Return(r1) EXCEPT !.pc = "body"]

\* getUserUsageStatsFromDB issues rpc('get_user_usage_stats'): the RPC runs
\* its first SELECT, or reports an error, or the client throws.
UsageRpc(r) ==
    /\ req[r].pc = "usage"
    /\ LET row == usageRows[req[r].in.who]
       IN \E outcome \in {"ok", "error", "throw"} :
            req' = [req EXCEPT ![r] =
              CASE outcome = "ok" ->
                     [req[r] EXCEPT !.pc = "usage_sql",
                                    !.now_time = now,
                                    !.has_row = row.exists,
                                    !.current_reset_at = row.daily_reset_at,
                                    !.readStale = Stale(row, now),
                                    !.readAt = now]
                [] outcome = "error" -> [req[r] EXCEPT !.pc = "usage_fallback"]
                [] OTHER -> AfterUsage(req[r], DefaultUsage(now))]
    /\ UNCHANGED <<now, usageRows, subRows, baseline, unit, globalUsageCount,
                   globalUsageResetTime, mcqCache>>

\* Mutant of get_user_usage_stats_update: the reset is not conditional.
get_user_usage_stats_update_Always(row, now_time, has_row, current_reset_at) ==
    IF row.exists THEN Row(0, NextMidnight(now_time)) ELSE row

\* get_user_usage_stats: the conditional reset UPDATE and the RETURN QUERY.
get_user_usage_stats_update(row, now_time, has_row, current_reset_at) ==
    IF row.exists /\ (~has_row \/ now_time >= current_reset_at)
    THEN Row(0, NextMidnight(now_time))
    ELSE row

\* What getUserUsageStatsFromDB makes of the RPC's rows: the first row, or
\* the defaults when there is none.
RpcResult(row, t) == IF row.exists THEN Snapshot(row) ELSE DefaultUsage(t)

UsageSql(r) ==
    /\ req[r].pc = "usage_sql"
    /\ LET u == req[r].in.who
           row == get_user_usage_stats_update(usageRows[u], req[r].now_time,
                        req[r].has_row, req[r].current_reset_at)
       IN /\ usageRows' = [usageRows EXCEPT ![u] = row]
          /\ req' = [req EXCEPT ![r] =
                       AfterUsage([req[r] EXCEPT
                                     !.resets = IF row # usageRows[u]
                                                THEN @ + 1 ELSE @],
                                  RpcResult(row, now))]
    /\ UNCHANGED <<now, subRows, baseline, unit, globalUsageCount, globalUsageResetTime,
                   mcqCache>>

\* Mutant of FallbackResult: the fallback's error is not looked at.
FallbackResult_Stored(row, outcome, t) ==
    IF row.exists THEN Snapshot(row) ELSE DefaultUsage(t)

\* What getUserUsageStatsFromDB makes of its fallback query: the row, or the
\* defaults when the query failed (.single() fails when there is no row).
FallbackResult(row, outcome, t) ==
    IF outcome = "ok" /\ row.exists THEN Snapshot(row) ELSE DefaultUsage(t)

\* getUserUsageStatsFromDB from its call to its return, when no other call
\* touches the row meanwhile.
getUserUsageStatsFromDB(row, rpc, fallback, t) ==
    CASE rpc = "throw" -> DefaultUsage(t)
      [] rpc = "error" -> FallbackResult(row, fallback, t)
      [] OTHER -> RpcResult(get_user_usage_stats_update(row, t, row.exists,
                                                        row.daily_reset_at), t)

\* getUserUsageStatsFromDB's fallback: the plain query of the row.
UsageFallback(r) ==
    /\ req[r].pc = "usage_fallback"
    /\ LET row == usageRows[req[r].in.who]
       IN \E outcome \in {"ok", "error"} :
            req' = [req EXCEPT ![r] =
              IF outcome = "ok" /\ row.exists
              THEN AfterUsage([req[r] EXCEPT !.readStale = Stale(row, now),
                                             !.readAt = now],
                              FallbackResult(row, outcome, now))
              ELSE AfterUsage(req[r], FallbackResult(row, outcome, now))]
    /\ UNCHANGED <<now, usageRows, subRows, baseline, unit, globalUsageCount,
                   globalUsageResetTime, mcqCache>>


ContentOf(body) ==
    IF body.text_content # <<>> THEN body.text_content ELSE body.file_data

\* Handler from `await req.json()` to the first fetch of the provider call:
\* body validation, content hash, cache lookup.
ReadBody(r) ==
    /\ req[r].pc = "body"
    /\ LET body == req[r].in.body
           h == generateFileHash(ContentOf(body))
           c == getCachedMCQs(mcqCache, h, now)
       IN  IF body.file_data = <<>> /\ body.text_content = <<>>
           THEN /\ req' = [req EXCEPT ![r] = Respond(req[r], 400)]
                /\ UNCHANGED mcqCache
           ELSE IF body.file_data # <<>> /\ body.mime_type = ""
           THEN /\ req' = [req EXCEPT ![r] = Respond(req[r], 400)]
                /\ UNCHANGED mcqCache
           ELSE /\ mcqCache' = c.cache
                /\ req' = [req EXCEPT ![r] =
                     IF c.hit
                     THEN Respond([req[r] EXCEPT
                                     !.mcqs = c.mcqs, !.cached = TRUE,
                                     !.remaining = req[r].userLimits.remaining],
                                  200)
                     ELSE [req[r] EXCEPT !.pc = "fetch", !.call = CallStart,
                                         !.fetched = TRUE]]
    /\ UNCHANGED <<now, usageRows, subRows, baseline, unit, globalUsageCount,
                   globalUsageResetTime>>

\* One attempt of the provider call resolves.  When the call returns, the
\* handler parses the text and calls incrementGlobalUsage before it awaits
\* incrementUserUsage; when the call or the parse throws, the catch block of
\* the handler answers 500.
Fetch(r) ==
    /\ req[r].pc = "fetch"
    /\ \E res \in ProviderResponses :
         LET c == ProviderAttempt(req[r].call, res)
             rq == [req[r] EXCEPT
                      !.call = CallStart,                  \* the call is over
                      !.gen = IF c.outcome = "thrown" THEN "failed"
                              ELSE IF IsArrayText(c.text) THEN "array"
                              ELSE "unparsable"]
             parsed == ParseGemini(c.text)
         IN  CASE c.outcome = "pending" ->
                    /\ req' = [req EXCEPT ![r] = [req[r] EXCEPT !.call = c]]
                    /\ UNCHANGED globalUsageCount
               [] c.outcome = "thrown" ->
                    /\ req' = [req EXCEPT ![r] = Respond(rq, 500)]
                    /\ UNCHANGED globalUsageCount
               [] OTHER ->
                    IF ~parsed.ok
                    THEN /\ req' = [req EXCEPT ![r] = Respond(rq, 500)]
                         /\ UNCHANGED globalUsageCount
                    ELSE /\ globalUsageCount' =
                                incrementGlobalUsage(globalUsageCount)
                         /\ req' = [req EXCEPT ![r] =
                               [rq EXCEPT !.mcqs = parsed.mcqs,
                                          !.globalIncs = @ + 1,
                                          !.pc = "inc"]]
    /\ UNCHANGED <<now, usageRows, subRows, baseline, unit, globalUsageResetTime, mcqCache>>

\* Mutant of Finish: the handler fails after incrementUserUsage.
Finish_Error(rq) ==
    Respond(rq, 500)

\* Mutant of Finish: the response subtracts the new upload twice.
Finish_DoubleCharge(rq) ==
    Respond([rq EXCEPT !.cached = FALSE,
                       !.remaining = rq.userLimits.remaining - 2], 200)

\* Handler after incrementUserUsage: cacheMCQs and the 200 answer.
Finish(rq) ==
    Respond([rq EXCEPT !.cached = FALSE,
                       !.remaining = rq.userLimits.remaining - 1], 200)

\* Mutant of IncrementFailed: the failure reaches the handler's catch.
IncrementFailed_Rethrow(rq) ==
    Respond(rq, 500)

\* incrementUserUsage gave up (its catch logged the error, or the fallback
\* read found nothing to update) and returned; the handler goes on.
IncrementFailed(rq) ==
    Finish(rq)

StoreInCache(rq) ==
    cacheMCQs(mcqCache, generateFileHash(ContentOf(rq.in.body)), rq.mcqs, now)

\* incrementUserUsage issues rpc('increment_upload_count'): the RPC runs its
\* SELECT, or reports an error, or the client throws (caught and logged).
IncRpc(r) ==
    /\ req[r].pc = "inc"
    /\ LET row == usageRows[req[r].in.who]
       IN \E outcome \in {"ok", "error", "throw"} :
            CASE outcome = "ok" ->
                   /\ req' = [req EXCEPT ![r] =
                        [req[r] EXCEPT !.pc = "inc_sql",
                                       !.now_time = now,
                                       !.has_row = row.exists,
                                       !.current_reset_at = row.daily_reset_at]]
                   /\ UNCHANGED mcqCache
              [] outcome = "error" ->
                   /\ req' = [req EXCEPT ![r] =
                                [req[r] EXCEPT !.pc = "inc_fallback"]]
                   /\ UNCHANGED mcqCache
              [] OTHER ->
                   /\ req' = [req EXCEPT ![r] = IncrementFailed(req[r])]
                   /\ mcqCache' = StoreInCache(req[r])
    /\ UNCHANGED <<now, usageRows, subRows, baseline, unit, globalUsageCount,
                   globalUsageResetTime>>

\* increment_upload_count: the UPDATE of either branch.
increment_upload_count_update(row, now_time, has_row, current_reset_at) ==
    IF ~row.exists THEN row
    ELSE IF ~has_row \/ now_time >= current_reset_at
    THEN Row(1, NextMidnight(now_time))
    ELSE Row(row.uploads_today + 1, row.daily_reset_at)

IncSql(r) ==
    /\ req[r].pc = "inc_sql"
    /\ LET u == req[r].in.who
           row == increment_upload_count_update(usageRows[u], req[r].now_time,
                        req[r].has_row, req[r].current_reset_at)
       IN /\ usageRows' = [usageRows EXCEPT ![u] = row]
          /\ req' = [req EXCEPT ![r] =
                       Finish([req[r] EXCEPT
                                 !.incs = IF row.exists THEN @ + 1 ELSE @])]
          /\ mcqCache' = StoreInCache(req[r])
    /\ UNCHANGED <<now, subRows, baseline, unit, globalUsageCount, globalUsageResetTime>>

\* incrementUserUsage's fallback, first half: read the row and prepare the
\* update from what was read.
FallbackWrite(current, t) ==
    IF t >= current.daily_reset_at
    THEN [reset |-> TRUE, uploads_today |-> 1,
          daily_reset_at |-> NextMidnight(t)]
    ELSE [reset |-> FALSE, uploads_today |-> current.uploads_today + 1,
          daily_reset_at |-> current.daily_reset_at]

IncFallbackRead(r) ==
    /\ req[r].pc = "inc_fallback"
    /\ LET row == usageRows[req[r].in.who]
       IN \E outcome \in {"ok", "error"} :
            IF outcome = "ok" /\ row.exists
            THEN /\ req' = [req EXCEPT ![r] =
                      [req[r] EXCEPT !.pc = "inc_write",
                                     !.write = FallbackWrite(row, now)]]
                 /\ UNCHANGED mcqCache
            ELSE /\ req' = [req EXCEPT ![r] = IncrementFailed(req[r])]
                 /\ mcqCache' = StoreInCache(req[r])
    /\ UNCHANGED <<now, usageRows, subRows, baseline, unit, globalUsageCount,
                   globalUsageResetTime>>

\* incrementUserUsage's fallback, second half: the UPDATE with the prepared
\* values (the non-reset update leaves daily_reset_at alone).
ApplyWrite(row, w) ==
    IF ~row.exists THEN row
    ELSE IF w.reset THEN Row(w.uploads_today, w.daily_reset_at)
    ELSE Row(w.uploads_today, row.daily_reset_at)

IncFallbackWrite(r) ==
    /\ req[r].pc = "inc_write"
    /\ LET u == req[r].in.who
       IN /\ usageRows' = [usageRows EXCEPT ![u] = ApplyWrite(@, req[r].write)]
          /\ req' = [req EXCEPT ![r] =
                       Finish([req[r] EXCEPT
                                 !.incs = IF usageRows[u].exists THEN @ + 1
                                          ELSE @])]
          /\ mcqCache' = StoreInCache(req[r])
    /\ UNCHANGED <<now, subRows, baseline, unit, globalUsageCount, globalUsageResetTime>>

\* Time passes.
Tick ==
    /\ \E i \in 1 .. (MaxTimeIdx - 1) :
         /\ now = TimeLine[i]
         /\ now' = TimeLine[i + 1]
    /\ UNCHANGED <<usageRows, subRows, baseline, unit, globalUsageCount,
                   globalUsageResetTime, mcqCache, req>>

----------------------------------------------------------------------------
(* The pipeline *)

Sub(p, st) == [plan_type |-> p, status |-> st]

\* u1 is a free user one upload short of the limit, or with yesterday's
\* count still stored (daily_reset_at = now); u2 is a pro user one upload
\* short of the pro limit.
InitUsageRows ==
    {[u1 |-> a, u2 |-> Row(49, T0 + DAY)] :
        a \in {Row(4, T0 + DAY), Row(3, T0)}}

InitSubRows ==
    {[u1 |-> <<Sub("free", "active")>>, u2 |-> <<Sub("pro", "active")>>]}

NoUnit == [fn |-> "none"]

\* uploads_today as the lazy reset defines it: 0 once the reset time is reached.
Logical(row, t) == IF t >= row.daily_reset_at THEN 0 ELSE row.uploads_today

Init ==
    /\ now = T0
    /\ usageRows \in InitUsageRows
    /\ subRows \in InitSubRows
    /\ globalUsageCount = MAX_GLOBAL_USAGE - 1
    /\ globalUsageResetTime = T0 + GLOBAL_WINDOW
    /\ mcqCache = [h \in Hashes |-> NoEntry]
    /\ req = [r \in Requests |-> ReqIdle]
    /\ baseline = [u \in Users |-> Logical(usageRows[u], T0)]
    /\ unit = NoUnit

Next ==
    \/ \E r \in Requests : Start(r)
    \/ \E r \in Requests : Auth(r)
    \/ \E r \in Requests : GetSub(r)
    \/ \E r \in Requests : UsageRpc(r)
    \/ \E r \in Requests : UsageSql(r)
    \/ \E r \in Requests : UsageFallback(r)
    \/ \E r \in Requests : ReadBody(r)
    \/ \E r \in Requests : Fetch(r)
    \/ \E r \in Requests : IncRpc(r)
    \/ \E r \in Requests : IncSql(r)
    \/ \E r \in Requests : IncFallbackRead(r)
    \/ \E r \in Requests : IncFallbackWrite(r)
    \/ Tick

Spec == Init /\ [][Next]_vars

\* The pipeline when requests do not overlap: a request is received only
\* when no other request is between two of its steps.
Alone(r) == \A q \in Requests \ {r} : req[q].pc \in {"idle", "done"}

StartAlone(r) == Alone(r) /\ Start(r)

\* The instance has just been loaded: its counter is 0.
InitSerial ==
    /\ now = T0
    /\ usageRows \in InitUsageRows
    /\ subRows \in InitSubRows
    /\ globalUsageCount = 0
    /\ globalUsageResetTime = T0 + GLOBAL_WINDOW
    /\ mcqCache = [h \in Hashes |-> NoEntry]
    /\ req = [r \in Requests |-> ReqIdle]
    /\ baseline = [u \in Users |-> Logical(usageRows[u], T0)]
    /\ unit = NoUnit

NextSerial ==
    \/ \E r \in Requests : StartAlone(r)
    \/ \E r \in Requests : Auth(r)
    \/ \E r \in Requests : GetSub(r)
    \/ \E r \in Requests : UsageRpc(r)
    \/ \E r \in Requests : UsageSql(r)
    \/ \E r \in Requests : UsageFallback(r)
    \/ \E r \in Requests : ReadBody(r)
    \/ \E r \in Requests : Fetch(r)
    \/ \E r \in Requests : IncRpc(r)
    \/ \E r \in Requests : IncSql(r)
    \/ \E r \in Requests : IncFallbackRead(r)
    \/ \E r \in Requests : IncFallbackWrite(r)
    \/ Tick

SpecSerial == InitSerial /\ [][NextSerial]_vars

\* One request from its arrival to its response, alone on the instance.
\* The user's row is short of the limit, stale, at the limit, or missing.
Steps(r) ==
    \/ Start(r) \/ Auth(r) \/ GetSub(r)
    \/ UsageRpc(r) \/ UsageSql(r) \/ UsageFallback(r)
    \/ ReadBody(r) \/ Fetch(r)
    \/ IncRpc(r) \/ IncSql(r) \/ IncFallbackRead(r) \/ IncFallbackWrite(r)

InitOne ==
    /\ now = T0
    /\ usageRows \in {[u1 |-> a, u2 |-> Row(49, T0 + DAY)] :
                        a \in {Row(4, T0 + DAY), Row(3, T0), Row(5, T0 + DAY),
                               NoRow}}
    /\ subRows \in InitSubRows
    /\ globalUsageCount = 0
    /\ globalUsageResetTime = T0 + GLOBAL_WINDOW
    /\ mcqCache = [h \in Hashes |-> NoEntry]
    /\ req = [r \in Requests |-> ReqIdle]
    /\ baseline = [u \in Users |-> Logical(usageRows[u], T0)]
    /\ unit = NoUnit

NextOne == Steps(1) \/ Tick

SpecOne == InitOne /\ [][NextOne]_vars

\* The runtime resumes a handler whenever the promise it awaits settles,
\* and the store and the provider settle every promise: by an answer, an
\* error or a timeout.
SpecOneFair == SpecOne /\ WF_vars(Steps(1))

----------------------------------------------------------------------------
(* Functions studied on their own.  The pipeline's variables keep their     *)
(* initial values; unit holds the arguments and the result of one call.     *)

MaxUploads == 51            \* largest uploads_today handed to checkUserLimits
MaxSubRows == 2             \* most subscription rows a user has in the store

Idle ==
    /\ now = T0
    /\ usageRows = [u1 |-> Row(4, T0 + DAY), u2 |-> Row(49, T0 + DAY)]
    /\ subRows \in InitSubRows
    /\ globalUsageCount = MAX_GLOBAL_USAGE - 1
    /\ globalUsageResetTime = T0 + GLOBAL_WINDOW
    /\ mcqCache = [h \in Hashes |-> NoEntry]
    /\ req = [r \in Requests |-> ReqIdle]
    /\ baseline = [u \in Users |-> Logical(usageRows[u], T0)]

Pipeline == <<now, usageRows, subRows, globalUsageCount, globalUsageResetTime,
              mcqCache, req, baseline>>

\* checkUserLimits on every tier and every snapshot up to MaxUploads.
InitLimits ==
    /\ Idle
    /\ \E sub \in {"FREE", "PRO"}, n \in 0 .. MaxUploads,
          d \in {T0, T0 + DAY} :
         unit = [fn |-> "checkUserLimits", subscription |-> sub,
                 usage |-> [uploads_today |-> n, daily_reset_at |-> d],
                 done |-> FALSE, result |-> NoLimits]

CallLimits ==
    /\ unit.fn = "checkUserLimits"
    /\ ~unit.done
    /\ unit' = [unit EXCEPT !.done = TRUE,
                  !.result = checkUserLimits(unit.subscription, unit.usage)]
    /\ UNCHANGED Pipeline

SpecLimits == InitLimits /\ [][CallLimits]_vars

\* getUserSubscription on every content of the user's subscription rows.
PlanTypes == {"pro", "free"}
SubStatuses == {"active", "expired"}

RECURSIVE SeqsUpTo(_, _)
SeqsUpTo(S, n) ==
    IF n = 0 THEN {<<>>}
    ELSE LET shorter == SeqsUpTo(S, n - 1)
         IN  shorter \cup {Append(q, x) : q \in shorter, x \in S}

InitSub ==
    /\ Idle
    /\ \E rows \in SeqsUpTo({Sub(p, st) : p \in PlanTypes, st \in SubStatuses},
                            MaxSubRows),
          outcome \in {"ok", "error", "throw"} :
         unit = [fn |-> "getUserSubscription", rows |-> rows,
                 outcome |-> outcome, done |-> FALSE, result |-> "FREE"]

CallSub ==
    /\ unit.fn = "getUserSubscription"
    /\ ~unit.done
    /\ unit' = [unit EXCEPT !.done = TRUE,
                  !.result = getUserSubscription(unit.rows, unit.outcome)]
    /\ UNCHANGED Pipeline

SpecSub == InitSub /\ [][CallSub]_vars

\* One provider call, attempt by attempt; log keeps the answers it received.
InitRetry ==
    /\ Idle
    /\ unit = [fn |-> "callProvider", call |-> CallStart, log |-> <<>>]

Attempt ==
    /\ unit.fn = "callProvider"
    /\ unit.call.outcome = "pending"
    /\ \E res \in ProviderResponses :
         unit' = [unit EXCEPT !.call = ProviderAttempt(unit.call, res),
                              !.log = Append(@, res)]
    /\ UNCHANGED Pipeline

SpecRetry == InitRetry /\ [][Attempt]_vars

\* Parse of the raw text in the Groq handler: JSON.parse; an array is taken
\* as it is, an object gives the first array found under its keys, and an
\* empty result there throws; every throw of that block falls to the
\* bracketed pattern of an array of objects over the raw text.
ArrayPatternMatches(raw) ==
    raw.wrap \in {"array", "fenced", "object"} /\ raw.arr # <<>>

ParseGroq(raw) ==
    IF raw.wrap = "array" THEN [ok |-> TRUE, mcqs |-> raw.arr]
    ELSE IF raw.wrap = "object" /\ raw.arr # <<>>
    THEN [ok |-> TRUE, mcqs |-> raw.arr]
    ELSE IF ArrayPatternMatches(raw) THEN [ok |-> TRUE, mcqs |-> raw.arr]
    ELSE [ok |-> FALSE, mcqs |-> <<>>]

MaxArrayLen == 3            \* longest MCQ array handed to the parsers

\* Raw texts for the parsers: every array up to MaxArrayLen in every wrapping.
ParseInputs ==
    {RawText(w, a) : w \in {"array", "fenced", "object"},
                     a \in SeqsUpTo({GoodMCQ, BadMCQ}, MaxArrayLen)}
    \cup {RawText("garbage", <<>>)}

InitParse ==
    /\ Idle
    /\ \E handler \in {"gemini", "groq"}, raw \in ParseInputs :
         unit = [fn |-> "parse", handler |-> handler, raw |-> raw,
                 done |-> FALSE, result |-> [ok |-> FALSE, mcqs |-> <<>>]]

CallParse ==
    /\ unit.fn = "parse"
    /\ ~unit.done
    /\ unit' = [unit EXCEPT !.done = TRUE,
                  !.result = IF unit.handler = "gemini"
                             THEN ParseGemini(unit.raw)
                             ELSE ParseGroq(unit.raw)]
    /\ UNCHANGED Pipeline

SpecParse == InitParse /\ [][CallParse]_vars

\* The cache functions on a cache one entry short of its ceiling.  The cache
\* starts with entries stored at T0 under the keys 1 .. 999; the calls
\* store under key 1 again or under the next unused key, and look up the
\* keys stored to.  unit.shadow keeps, per key, what the last cacheMCQs call
\* for it stored and when; op, key, at and result describe the call just
\* made.
MaxStores == 2              \* cacheMCQs calls made on top of the prefill
MaxCacheTicks == 2          \* clock steps while the cache is studied

CacheKeys == 1 .. (CACHE_MAX_ENTRIES + MaxStores)
ProbeKeys == {1} \cup (CACHE_MAX_ENTRIES .. (CACHE_MAX_ENTRIES + MaxStores))
ClockSteps == {1, CACHE_DURATION - 1}

InitCache ==
    /\ now = T0
    /\ usageRows = [u1 |-> Row(4, T0 + DAY), u2 |-> Row(49, T0 + DAY)]
    /\ subRows \in InitSubRows
    /\ globalUsageCount = MAX_GLOBAL_USAGE - 1
    /\ globalUsageResetTime = T0 + GLOBAL_WINDOW
    /\ req = [r \in Requests |-> ReqIdle]
    /\ baseline = [u \in Users |-> Logical(usageRows[u], T0)]
    /\ LET prefill == CACHE_MAX_ENTRIES - 1 IN
         /\ mcqCache = [k \in CacheKeys |->
                          IF k <= prefill THEN Entry(<<GoodMCQ>>, T0)
                          ELSE NoEntry]
         /\ unit = [fn |-> "cache", next |-> prefill + 1, stores |-> 0,
                    ticks |-> 0, op |-> "none", key |-> 1, at |-> T0,
                    result |-> [hit |-> FALSE, mcqs |-> <<>>],
                    shadow |-> [k \in ProbeKeys |->
                                  IF k <= prefill THEN Entry(<<GoodMCQ>>, T0)
                                  ELSE NoEntry]]

NotCache == <<usageRows, subRows, globalUsageCount, globalUsageResetTime,
              req, baseline>>

CacheStore ==
    /\ unit.fn = "cache"
    /\ unit.stores < MaxStores
    /\ \E k \in {1, unit.next}, m \in {<<>>, <<BadMCQ>>} :
         /\ mcqCache' = cacheMCQs(mcqCache, k, m, now)
         /\ unit' = [unit EXCEPT
                        !.op = "store", !.key = k, !.at = now,
                        !.result = [hit |-> FALSE, mcqs |-> <<>>],
                        !.stores = @ + 1,
                        !.next = IF k = unit.next THEN @ + 1 ELSE @,
                        !.shadow = [@ EXCEPT ![k] = Entry(m, now)]]
    /\ UNCHANGED <<now, NotCache>>

CacheLookup ==
    /\ unit.fn = "cache"
    /\ \E k \in {j \in ProbeKeys : j < unit.next} :
         LET c == getCachedMCQs(mcqCache, k, now)
         IN  /\ mcqCache' = c.cache
             /\ unit' = [unit EXCEPT
                            !.op = "lookup", !.key = k, !.at = now,
                            !.result = [hit |-> c.hit, mcqs |-> c.mcqs]]
    /\ UNCHANGED <<now, NotCache>>

CacheTick ==
    /\ unit.fn = "cache"
    /\ unit.ticks < MaxCacheTicks
    /\ \E d \in ClockSteps : now' = now + d
    /\ unit' = [unit EXCEPT !.ticks = @ + 1, !.op = "none", !.key = 1,
                             !.at = T0,
                             !.result = [hit |-> FALSE, mcqs |-> <<>>]]
    /\ UNCHANGED <<mcqCache, NotCache>>

SpecCache == InitCache /\ [][CacheStore \/ CacheLookup \/ CacheTick]_vars

\* The catch block of the Groq handlers.  An error carries its message, and
\* may carry rawResponse and statusCode; a message is its fixed wording (kind)
\* and the provider text spliced into it.  Absent stands for a property that
\* is not set (or is the empty string, which the catch block treats alike).
ErrorTexts == {<<>>, TextA, TextB}
Absent == [kind |-> "absent", text |-> <<>>]
Message(k, t) == [kind |-> k, text |-> t]
ProviderText(t) == [kind |-> "provider", text |-> t]

\* The error callGroqWithText throws on its last attempt: a non-ok answer
\* with its body and status, fetch failing, or a 200 body that is not JSON.
GroqCallError(status, body) ==
    IF status = 0
    THEN [message |-> Message("Failed to fetch", <<>>),
          rawResponse |-> Message("Failed to fetch", <<>>), statusCode |-> 0]
    ELSE IF status = 200
    THEN [message |-> Message("not valid JSON", <<>>),
          rawResponse |-> Message("not valid JSON", <<>>), statusCode |-> 0]
    ELSE [message |-> Message("Groq API failed", body),
          rawResponse |-> IF body # <<>> THEN ProviderText(body)
                          ELSE Message("Groq API failed", body),
          statusCode |-> status]

\* The error the handler's parse throws: rawResponse is the provider's text.
GroqParseError(groqRaw) ==
    [message |-> Message("Groq did not return valid JSON", <<>>),
     rawResponse |-> IF groqRaw # <<>> THEN ProviderText(groqRaw) ELSE Absent,
     statusCode |-> 0]

\* An error thrown elsewhere in the handler (req.json(), a missing key).
InternalError ==
    [message |-> Message("internal", <<>>), rawResponse |-> Absent,
     statusCode |-> 0]

GroqErrors ==
    {GroqCallError(st, b) : st \in {0, 200, 400, 429, 500, 503},
                            b \in ErrorTexts}
    \cup {GroqParseError(t) : t \in ErrorTexts} \cup {InternalError}

Environments == {"development", "production", "unset"}

\* userMessage of the catch block outside development, from e.message.
ProductionMessage(message) ==
    CASE message.kind = "Groq API failed" -> "AI service is temporarily unavailable"
      [] message.kind = "Failed to fetch" -> "Network error"
      [] message.kind \in {"not valid JSON", "Groq did not return valid JSON"}
            -> "Failed to process AI response"
      [] OTHER -> "An unexpected error occurred"

\* The JSON body of the 500 response.
CatchBody(environment, e) ==
    [error |-> IF environment = "development" THEN e.message
               ELSE Message(ProductionMessage(e.message), <<>>),
     raw_api_response |-> e.rawResponse,
     status_code |-> e.statusCode]

InitCatch ==
    /\ Idle
    /\ \E environment \in Environments, e \in GroqErrors :
         unit = [fn |-> "catch", environment |-> environment, e |-> e,
                 done |-> FALSE, body |-> CatchBody("production", InternalError)]

CallCatch ==
    /\ unit.fn = "catch"
    /\ ~unit.done
    /\ unit' = [unit EXCEPT !.done = TRUE,
                             !.body = CatchBody(unit.environment, unit.e)]
    /\ UNCHANGED Pipeline

SpecCatch == InitCatch /\ [][CallCatch]_vars

\* callGeminiWithFileData: the size test on the base64 string comes before
\* the retry loop.  fileData is given by its length; length * 3 / 4 bytes
\* over 1024 * 1024 is compared with 20 (the products below are exact, as
\* the quotients of the code are for lengths of this size).
MAX_FILE_MB == 20

FileTooLarge(len) == len * 3 > MAX_FILE_MB * (1024 * 1024) * 4

\* Mutant of FileCallStart: no size test.
FileCallStart_Unchecked(len) == CallStart

\* The call as it enters the loop, or as it ended on the size test.
FileCallStart(len) ==
    IF FileTooLarge(len)
    THEN [CallStart EXCEPT !.outcome = "thrown", !.error = "File too large"]
    ELSE CallStart

MaxFileLen == 27962028      \* longest file_data handed to the call

FileLens == {1} \cup ((MaxFileLen - 3) .. MaxFileLen)

InitFile ==
    /\ Idle
    /\ \E len \in FileLens :
         unit = [fn |-> "callGeminiWithFileData", len |-> len,
                 started |-> FALSE, call |-> CallStart, log |-> <<>>]

FileCall ==
    /\ unit.fn = "callGeminiWithFileData"
    /\ ~unit.started
    /\ unit' = [unit EXCEPT !.started = TRUE,
                             !.call = FileCallStart(unit.len)]
    /\ UNCHANGED Pipeline

FileAttempt ==
    /\ unit.fn = "callGeminiWithFileData"
    /\ unit.started
    /\ unit.call.outcome = "pending"
    /\ \E res \in ProviderResponses :
         unit' = [unit EXCEPT !.call = ProviderAttempt(unit.call, res),
                              !.log = Append(@, res)]
    /\ UNCHANGED Pipeline

SpecFile == InitFile /\ [][FileCall \/ FileAttempt]_vars

\* The study material each entry point puts into the provider request, from
\* the textContent argument of its call function: callGroqWithText of the
\* current Groq functions cuts it to MAX_INPUT_LENGTH characters,
\* callGeminiWithText and the earlier callGroqWithText send it whole.
MAX_INPUT_LENGTH == 2500

EntryPoints == {"gemini", "groq", "groq_earlier"}

StudyMaterial(entry, textContent) ==
    IF entry = "groq" /\ Len(textContent) > MAX_INPUT_LENGTH
    THEN SubSeq(textContent, 1, MAX_INPUT_LENGTH)
    ELSE textContent

MaxTextLen == 2502          \* longest text handed to an entry point

TextOf(n, c) == [i \in 1 .. n |-> c + (i % 7)]

SubmittedTexts ==
    {TextOf(n, c) : n \in {0, 1} \cup ((MaxTextLen - 6) .. MaxTextLen),
                    c \in {97, 104, 111}}

InitText ==
    /\ Idle
    /\ \E entry \in EntryPoints, t \in SubmittedTexts :
         unit = [fn |-> "buildRequest", entry |-> entry, textContent |-> t,
                 done |-> FALSE, sent |-> <<>>]

CallText ==
    /\ unit.fn = "buildRequest"
    /\ ~unit.done
    /\ unit' = [unit EXCEPT !.done = TRUE,
                  !.sent = StudyMaterial(unit.entry, unit.textContent)]
    /\ UNCHANGED Pipeline

SpecText == InitText /\ [][CallText]_vars

\* The handler from getUserSubscription to the answer of checkUserLimits,
\* for one request: every content of the user's subscription rows, every
\* outcome of the subscription query, and snapshots around both limits.
GateUploads == {0, 4, 5, 49, 50}

InitGate ==
    /\ Idle
    /\ \E rows \in SeqsUpTo({Sub(p, st) : p \in PlanTypes, st \in SubStatuses},
                            MaxSubRows),
          outcome \in {"ok", "error", "throw"}, n \in GateUploads :
         unit = [fn |-> "gate", rows |-> rows, outcome |-> outcome,
                 usage |-> [uploads_today |-> n, daily_reset_at |-> T0 + DAY],
                 rq |-> [ReqIdle EXCEPT !.pc = "sub"]]

GateSub ==
    /\ unit.fn = "gate"
    /\ unit.rq.pc = "sub"
    /\ unit' = [unit EXCEPT !.rq = SubResolved(@, unit.rows, unit.outcome)]
    /\ UNCHANGED Pipeline

GateLimits ==
    /\ unit.fn = "gate"
    /\ unit.rq.pc = "usage"
    /\ unit' = [unit EXCEPT !.rq = AfterUsage(@, unit.usage)]
    /\ UNCHANGED Pipeline

SpecGate == InitGate /\ [][GateSub \/ GateLimits]_vars

\* The operations on one user's row of user_usage_stats, called by sessions
\* that overlap: the three SQL functions (their SELECT and their UPDATE are
\* two steps) and the fallback of incrementUserUsage (its query and its
\* update are two round trips).  Each call is made for one user and carries
\* that user's id to every statement (WHERE user_id = user_id_param);
\* unit.start is u1's row at T0, unit.incs counts per user the completed
\* calls that advance uploads_today, unit.ops holds per user the operations
\* called so far.
MaxCalls == 4               \* calls begun while the row is studied

Sessions == {1, 2, 3}

\* Sessions 1 and 2 are requests of u1, session 3 is a request of u2.
SessionUser(s) == IF s = 3 THEN "u2" ELSE "u1"

SqlFunctions == {"get_user_usage_stats", "increment_upload_count",
                 "check_and_reset_daily_uploads_on_login"}

SesIdle == [op |-> "none", user |-> "u1", now_time |-> 0, has_row |-> FALSE,
            current_reset_at |-> 0, write |-> NoWrite]

\* check_and_reset_daily_uploads_on_login: the UPDATE of either branch (the
\* ELSE branch sets last_login_at only).
check_and_reset_daily_uploads_on_login_update(row, now_time, has_row, current_reset_at) ==
    IF row.exists /\ (~has_row \/ now_time >= current_reset_at)
    THEN Row(0, NextMidnight(now_time))
    ELSE row

SqlUpdate(f, row, ses) ==
    CASE f = "get_user_usage_stats" ->
           get_user_usage_stats_update(row, ses.now_time, ses.has_row,
                                       ses.current_reset_at)
      [] f = "increment_upload_count" ->
           increment_upload_count_update(row, ses.now_time, ses.has_row,
                                         ses.current_reset_at)
      [] OTHER ->
           check_and_reset_daily_uploads_on_login_update(row, ses.now_time,
                ses.has_row, ses.current_reset_at)

InitUsage ==
    /\ now = T0
    /\ usageRows \in InitUsageRows
    /\ subRows \in InitSubRows
    /\ globalUsageCount = MAX_GLOBAL_USAGE - 1
    /\ globalUsageResetTime = T0 + GLOBAL_WINDOW
    /\ mcqCache = [h \in Hashes |-> NoEntry]
    /\ req = [r \in Requests |-> ReqIdle]
    /\ baseline = [u \in Users |-> Logical(usageRows[u], T0)]
    /\ unit = [fn |-> "usage", ses |-> [s \in Sessions |-> SesIdle],
               start |-> usageRows.u1, calls |-> 0,
               incs |-> [u \in Users |-> 0], ops |-> [u \in Users |-> {}]]

NotUsage == <<now, subRows, globalUsageCount, globalUsageResetTime, mcqCache,
              req, baseline>>

\* A session calls one of the SQL functions: its SELECT.
UsageSelect(s) ==
    /\ unit.fn = "usage"
    /\ unit.ses[s].op = "none"
    /\ unit.calls < MaxCalls
    /\ \E f \in SqlFunctions, u \in {SessionUser(s)} :
         unit' = [unit EXCEPT
                    !.ses[s] = [op |-> f, user |-> u, now_time |-> now,
                                has_row |-> usageRows[u].exists,
                                current_reset_at |-> usageRows[u].daily_reset_at,
                                write |-> NoWrite],
                    !.calls = @ + 1,
                    !.ops[u] = @ \cup {f}]
    /\ UNCHANGED <<usageRows, NotUsage>>

\* The UPDATE of the function, and its return.
UsageUpdate(s) ==
    /\ unit.fn = "usage"
    /\ unit.ses[s].op \in SqlFunctions
    /\ usageRows' = [usageRows EXCEPT
                       ![unit.ses[s].user] =
                           SqlUpdate(unit.ses[s].op, @, unit.ses[s])]
    /\ unit' = [unit EXCEPT
                  !.ses[s] = SesIdle,
                  !.incs[unit.ses[s].user] =
                      IF unit.ses[s].op = "increment_upload_count"
                      THEN @ + 1 ELSE @]
    /\ UNCHANGED NotUsage

\* A session runs the fallback of incrementUserUsage: its query of the row.
UsageFallbackRead(s) ==
    /\ unit.fn = "usage"
    /\ unit.ses[s].op = "none"
    /\ unit.calls < MaxCalls
    /\ \E u \in {SessionUser(s)} :
         unit' = [unit EXCEPT
                    !.ses[s] = [SesIdle EXCEPT
                                  !.op = "fallback", !.user = u,
                                  !.write = FallbackWrite(usageRows[u], now)],
                    !.calls = @ + 1,
                    !.ops[u] = @ \cup {"fallback"}]
    /\ UNCHANGED <<usageRows, NotUsage>>

\* The fallback's update.
UsageFallbackUpdate(s) ==
    /\ unit.fn = "usage"
    /\ unit.ses[s].op = "fallback"
    /\ usageRows' = [usageRows EXCEPT
                       ![unit.ses[s].user] = ApplyWrite(@, unit.ses[s].write)]
    /\ unit' = [unit EXCEPT !.ses[s] = SesIdle,
                            !.incs[unit.ses[s].user] = @ + 1]
    /\ UNCHANGED NotUsage

NextUsage ==
    \/ \E s \in Sessions : UsageSelect(s)
    \/ \E s \in Sessions : UsageUpdate(s)
    \/ \E s \in Sessions : UsageFallbackRead(s)
    \/ \E s \in Sessions : UsageFallbackUpdate(s)
    \/ Tick

SpecUsage == InitUsage /\ [][NextUsage]_vars

\* The global counter on its own, around the end of its 30-day window: the
\* clock starts one second before globalUsageResetTime; op, at, before and
\* result describe the call just made.
MaxGlobalTicks == 3         \* seconds the clock advances past its start
MaxGlobalIncs == 2          \* incrementGlobalUsage calls made

NoCall == [op |-> "none", at |-> 0, before |-> [count |-> 0, resetTime |-> 0],
           result |-> NoGlobal]

InitGlobal ==
    /\ now = (T0 + GLOBAL_WINDOW) - 1
    /\ usageRows = [u1 |-> Row(4, T0 + DAY), u2 |-> Row(49, T0 + DAY)]
    /\ subRows \in InitSubRows
    /\ globalUsageCount \in {0, MAX_GLOBAL_USAGE - 2, MAX_GLOBAL_USAGE - 1,
                              MAX_GLOBAL_USAGE}
    /\ globalUsageResetTime = T0 + GLOBAL_WINDOW
    /\ mcqCache = [h \in Hashes |-> NoEntry]
    /\ req = [r \in Requests |-> ReqIdle]
    /\ baseline = [u \in Users |-> Logical(usageRows[u], T0)]
    /\ unit = [fn |-> "global", ticks |-> 0, incs |-> 0, last |-> NoCall]

NotGlobal == <<usageRows, subRows, mcqCache, req, baseline>>

GlobalCheck ==
    /\ unit.fn = "global"
    /\ LET g == checkGlobalUsage(globalUsageCount, globalUsageResetTime, now)
       IN  /\ globalUsageCount' = g.count
           /\ globalUsageResetTime' = g.resetTime
           /\ unit' = [unit EXCEPT
                         !.last = [op |-> "check", at |-> now,
                                   before |-> [count |-> globalUsageCount,
                                               resetTime |-> globalUsageResetTime],
                                   result |-> g.result]]
    /\ UNCHANGED <<now, NotGlobal>>

GlobalIncrement ==
    /\ unit.fn = "global"
    /\ unit.incs < MaxGlobalIncs
    /\ globalUsageCount' = incrementGlobalUsage(globalUsageCount)
    /\ unit' = [unit EXCEPT !.incs = @ + 1, !.last = NoCall]
    /\ UNCHANGED <<now, globalUsageResetTime, NotGlobal>>

GlobalTick ==
    /\ unit.fn = "global"
    /\ unit.ticks < MaxGlobalTicks
    /\ now' = now + 1
    /\ unit' = [unit EXCEPT !.ticks = @ + 1, !.last = NoCall]
    /\ UNCHANGED <<globalUsageCount, globalUsageResetTime, NotGlobal>>

SpecGlobal == InitGlobal /\ [][GlobalCheck \/ GlobalIncrement \/ GlobalTick]_vars

\* The generation entry points of the repository, by the order of their
\* handlers: generate-mcqs (Gemini) and the Groq function with quotas call
\* checkUserLimits before they call the provider; the deployed
\* generate-mcqs-groq and the earlier Groq function go from auth.getUser to
\* the body and to callGroqWithText.
GenerationHandlers ==
    {"generate-mcqs", "groq-with-quota", "generate-mcqs-groq", "groq-earlier"}

ChecksUserLimits(handler) == handler \in {"generate-mcqs", "groq-with-quota"}

InitEntry ==
    /\ Idle
    /\ \E handler \in GenerationHandlers, sub \in {"FREE", "PRO"},
          n \in GateUploads :
         unit = [fn |-> "entry", handler |-> handler,
                 usage |-> [uploads_today |-> n, daily_reset_at |-> T0 + DAY],
                 rq |-> [ReqIdle EXCEPT !.pc = "usage", !.subscription = sub]]

\* From the authenticated user to the read of the body.
EntryQuota ==
    /\ unit.fn = "entry"
    /\ unit.rq.pc = "usage"
    /\ unit' = [unit EXCEPT !.rq =
                  IF ChecksUserLimits(unit.handler)
                  THEN AfterUsage(@, unit.usage)
                  ELSE [@ EXCEPT !.pc = "body"]]
    /\ UNCHANGED Pipeline

\* The handler calls the provider.
EntryCall ==
    /\ unit.fn = "entry"
    /\ unit.rq.pc = "body"
    /\ unit' = [unit EXCEPT !.rq = [@ EXCEPT !.pc = "fetch", !.fetched = TRUE]]
    /\ UNCHANGED Pipeline

SpecEntry == InitEntry /\ [][EntryQuota \/ EntryCall]_vars

\* A provider text that parses to a JSON object, as the Groq handler walks
\* it: the properties in the order of the text, each value an array of MCQs
\* or something else.
Prop(k, isArr, a) == [key |-> k, isArray |-> isArr, arr |-> a]

possibleKeys == <<"mcqs", "questions", "items", "data", "results", "array">>

\* `for (const key of possibleKeys) if (Array.isArray(parsed[key])) ...`:
\* the indices of possibleKeys whose property of the object is an array.
KeysWithArray(obj) ==
    {i \in 1 .. Len(possibleKeys) :
        \E j \in 1 .. Len(obj) : obj[j].key = possibleKeys[i] /\ obj[j].isArray}

ValueAt(obj, k) == (CHOOSE j \in 1 .. Len(obj) : obj[j].key = k)

ArrayByKeys(obj) ==
    IF KeysWithArray(obj) = {} THEN <<>>
    ELSE LET i == CHOOSE x \in KeysWithArray(obj) :
                      \A y \in KeysWithArray(obj) : x <= y
         IN  obj[ValueAt(obj, possibleKeys[i])].arr

\* `for (const value of Object.values(parsed)) if (Array.isArray(value)) ...`
ArrayValues(obj) == {j \in 1 .. Len(obj) : obj[j].isArray}

ArrayByOrder(obj) ==
    IF ArrayValues(obj) = {} THEN <<>>
    ELSE obj[CHOOSE x \in ArrayValues(obj) :
                 \A y \in ArrayValues(obj) : x <= y].arr

\* The bracketed pattern over the text of the object runs from the first
\* "[{" to the last "}]": one array of objects is matched whole and parsed,
\* two or more give a span that is not JSON, none gives no match.
ObjectPattern(obj) ==
    LET full == {j \in 1 .. Len(obj) : obj[j].isArray /\ obj[j].arr # <<>>}
    IN  IF Cardinality(full) = 1
        THEN [ok |-> TRUE, mcqs |-> obj[CHOOSE j \in full : TRUE].arr]
        ELSE [ok |-> FALSE, mcqs |-> <<>>]

\* The object branch of the parse: the keys of possibleKeys, then, while
\* mcqs is still empty, the values in object order, then, while mcqs is
\* still empty, the throw that the catch answers with the pattern.
ParseGroqObject(obj) ==
    LET byKeys == ArrayByKeys(obj)
        mcqs == IF Len(byKeys) = 0 THEN ArrayByOrder(obj) ELSE byKeys
    IN  IF Len(mcqs) = 0 THEN ObjectPattern(obj)
        ELSE [ok |-> TRUE, mcqs |-> mcqs]

MaxProps == 2               \* most properties of a parsed object

ObjectKeys == {"mcqs", "data", "quiz", "extra"}

ObjectProps ==
    {Prop(k, FALSE, <<>>) : k \in ObjectKeys}
    \cup {Prop(k, TRUE, a) : k \in ObjectKeys,
                             a \in {<<>>, <<GoodMCQ>>, <<BadMCQ>>}}

ParsedObjects ==
    {obj \in SeqsUpTo(ObjectProps, MaxProps) :
        \A i, j \in 1 .. Len(obj) : obj[i].key = obj[j].key => i = j}

InitObject ==
    /\ Idle
    /\ \E obj \in ParsedObjects :
         unit = [fn |-> "parseObject", obj |-> obj, done |-> FALSE,
                 result |-> [ok |-> FALSE, mcqs |-> <<>>]]

CallObject ==
    /\ unit.fn = "parseObject"
    /\ ~unit.done
    /\ unit' = [unit EXCEPT !.done = TRUE, !.result = ParseGroqObject(unit.obj)]
    /\ UNCHANGED Pipeline

SpecObject == InitObject /\ [][CallObject]_vars

\* One request of either handler from its provider call to its answer: the
\* call's attempts, then the parse of the returned text and the response.
\* incrementUserUsage and cacheMCQs lie between the parse and the 200
\* answer and cannot end the request otherwise.
HandlerParse(handler, raw) ==
    IF handler = "gemini" THEN ParseGemini(raw) ELSE ParseGroq(raw)

InitAnswer ==
    /\ Idle
    /\ \E handler \in {"gemini", "groq"} :
         unit = [fn |-> "answer", handler |-> handler, nofield |-> FALSE,
                 rq |-> [ReqIdle EXCEPT !.pc = "fetch",
                           !.userLimits = checkUserLimits("FREE", DefaultUsage(T0))]]

AnswerAttempt ==
    /\ unit.fn = "answer"
    /\ unit.rq.pc = "fetch"
    /\ unit.rq.call.outcome = "pending"
    /\ \E res \in ProviderResponses :
         unit' = [unit EXCEPT
                    !.rq = [@ EXCEPT !.call = ProviderAttempt(@, res)],
                    !.nofield = ResOk(res) /\ res.body = "nofield"]
    /\ UNCHANGED Pipeline

AnswerParse ==
    /\ unit.fn = "answer"
    /\ unit.rq.pc = "fetch"
    /\ unit.rq.call.outcome # "pending"
    /\ LET c == unit.rq.call
           parsed == HandlerParse(unit.handler, c.text)
       IN  unit' = [unit EXCEPT !.rq =
                      IF c.outcome = "thrown" \/ ~parsed.ok
                      THEN Respond(@, 500)
                      ELSE Finish([@ EXCEPT !.mcqs = parsed.mcqs])]
    /\ UNCHANGED Pipeline

SpecAnswer == InitAnswer /\ [][AnswerAttempt \/ AnswerParse]_vars

\* The handler from getUserUsageStatsFromDB to the answer of checkUserLimits
\* for one request: every outcome of the RPC and of the fallback query, on a
\* row inside its window, stale, or missing.
InitSnapshot ==
    /\ Idle
    /\ \E row \in {NoRow} \cup {Row(n, d) : n \in GateUploads,
                                           d \in {T0, T0 + DAY}},
          rpc \in {"ok", "error", "throw"}, fallback \in {"ok", "error"},
          sub \in {"FREE", "PRO"} :
         unit = [fn |-> "snapshot", row |-> row, rpc |-> rpc,
                 fallback |-> fallback,
                 rq |-> [ReqIdle EXCEPT !.pc = "usage", !.subscription = sub]]

CallSnapshot ==
    /\ unit.fn = "snapshot"
    /\ unit.rq.pc = "usage"
    /\ unit' = [unit EXCEPT !.rq =
                  AfterUsage(@, getUserUsageStatsFromDB(unit.row, unit.rpc,
                                                        unit.fallback, now))]
    /\ UNCHANGED Pipeline

SpecSnapshot == InitSnapshot /\ [][CallSnapshot]_vars

\* The subscription sync function: from the body of an authenticated request
\* to the is_pro_active it passes to sync_user_subscription.  An entitlement
\* is what the handler reads of it: will_renew is true, and the expiry date
\* lies in the future.
Entitlement(present, wr, ne) ==
    [present |-> present, will_renew |-> wr, not_expired |-> ne]

Entitlements ==
    {Entitlement(FALSE, FALSE, FALSE)}
    \cup {Entitlement(TRUE, wr, ne) : wr \in BOOLEAN, ne \in BOOLEAN}

\* `willRenew || isNotExpired` of an entitlement that is there.
EntitlementActive(e) == e.present /\ (e.will_renew \/ e.not_expired)

\* The RevenueCat API answers 2xx with the subscriber's pro entitlement (or
\* none), answers another status, or the fetch throws.
RevenueCatAnswers ==
    {[kind |-> "ok", pro |-> e] : e \in Entitlements}
    \cup {[kind |-> k, pro |-> Entitlement(FALSE, FALSE, FALSE)] :
            k \in {"status", "throw"}}

isProActive(secret_key, answer, entitlement_data) ==
    IF secret_key /\ answer.kind = "ok"
    THEN EntitlementActive(answer.pro)
    ELSE EntitlementActive(entitlement_data)

InitSync ==
    /\ Idle
    /\ \E secret_key \in BOOLEAN, entitlement_data \in Entitlements,
          customer_id \in BOOLEAN :
         unit = [fn |-> "sync", secret_key |-> secret_key,
                 revenue_cat_customer_id |-> customer_id,
                 entitlement_data |-> entitlement_data,
                 answer |-> [kind |-> "none",
                             pro |-> Entitlement(FALSE, FALSE, FALSE)],
                 stage |-> "body", status |-> 0, isProActive |-> FALSE,
                 is_pro_active |-> FALSE]

\* `await req.json()` and the 400 answer to a body without
\* revenue_cat_customer_id.
SyncBody ==
    /\ unit.fn = "sync"
    /\ unit.stage = "body"
    /\ unit' = IF unit.revenue_cat_customer_id
               THEN [unit EXCEPT !.stage = "verify"]
               ELSE [unit EXCEPT !.stage = "done", !.status = 400]
    /\ UNCHANGED Pipeline

\* The verification: the fetch of the subscriber when the secret key is set.
SyncVerify ==
    /\ unit.fn = "sync"
    /\ unit.stage = "verify"
    /\ \E answer \in RevenueCatAnswers :
         unit' = [unit EXCEPT
                    !.answer = IF unit.secret_key THEN answer ELSE @,
                    !.isProActive = isProActive(unit.secret_key, answer,
                                                unit.entitlement_data),
                    !.stage = "rpc"]
    /\ UNCHANGED Pipeline

\* rpc('sync_user_subscription', {..., is_pro_active: isProActive}).
SyncRpc ==
    /\ unit.fn = "sync"
    /\ unit.stage = "rpc"
    /\ unit' = [unit EXCEPT !.is_pro_active = unit.isProActive,
                            !.stage = "synced"]
    /\ UNCHANGED Pipeline

SpecSync == InitSync /\ [][SyncBody \/ SyncVerify \/ SyncRpc]_vars

----------------------------------------------------------------------------
(* Claims *)

Done(r) == req[r].pc = "done"

\* The requests of user u that ended with a 200 non-cached response and
\* whose increment the store carried out (no store failure was swallowed).
Generated(u) ==
    {r \in Requests : Done(r) /\ req[r].status = 200 /\ ~req[r].cached
                      /\ req[r].in.who = u /\ req[r].incs = 1}

\* No request is between two of its steps.
Quiescent == \A r \in Requests : req[r].pc \in {"idle", "done"}

\* C1: inside the reset window that holds T0, once every request has ended,
\* a user's uploads_today (0 while the stored row is stale) equals its value
\* at the start of the window plus the number of the user's requests that
\* ended with a 200 non-cached response after the store carried out their
\* increment: no increment is lost, none is applied twice.
C1_NoLostIncrement ==
    (now < T0 + DAY /\ Quiescent) =>
        \A u \in Users :
            Logical(usageRows[u], now) = baseline[u] + Cardinality(Generated(u))


\* C2: checkUserLimits rejects exactly when the snapshot's uploads_today has
\* reached the tier's daily limit, 5 for FREE and 50 for PRO.
C2_RejectsExactlyAtLimit ==
    (unit.fn = "checkUserLimits" /\ unit.done) =>
        LET limit == IF unit.subscription = "FREE" THEN 5 ELSE 50
        IN  (~unit.result.allowed) <=> (unit.usage.uploads_today >= limit)

\* A PRO snapshot one short of the limit was admitted.
C2_Witness ==
    /\ unit.fn = "checkUserLimits" /\ unit.done
    /\ unit.subscription = "PRO" /\ unit.usage.uploads_today = 49
    /\ unit.result.allowed

\* The requests that got past the per-user check of the handler.
Checked(r) ==
    \/ req[r].pc \in {"body", "fetch", "inc", "inc_sql", "inc_fallback",
                      "inc_write"}
    \/ Done(r) /\ req[r].status \in {200, 400, 429, 500}

Incrementing(r) ==
    req[r].pc \in {"inc", "inc_sql", "inc_fallback", "inc_write"}

\* C3: a request increments the user's usage only after the provider call
\* returned text that holds an array; a request whose provider call failed or
\* whose text holds no array ends with 500 and made no increment.
C3_QuotaOnlyAfterParse ==
    \A r \in Requests :
        /\ (Incrementing(r) \/ req[r].incs > 0) => req[r].gen = "array"
        /\ req[r].gen \in {"failed", "unparsable"} =>
              Done(r) /\ req[r].status = 500 /\ req[r].incs = 0

\* A request ended with 500 on unparsable provider text.
C3_Witness ==
    \E r \in Requests :
        Done(r) /\ req[r].status = 500 /\ req[r].gen = "unparsable"

ValidBody(b) ==
    /\ ~(b.file_data = <<>> /\ b.text_content = <<>>)
    /\ ~(b.file_data # <<>> /\ b.mime_type = "")

HashOf(r) == generateFileHash(ContentOf(req[r].in.body))

\* C4: a request whose content hash has a live cache entry when the handler
\* looks it up is answered 200 with cached = true and the entry's MCQs, with
\* no provider call, and the user's row and the global count stay as they
\* were; no other request is answered cached = true.
C4_Step(r) ==
    (\/ /\ req[r].pc = "body" /\ req'[r] # req[r]
        /\ ValidBody(req[r].in.body)
        /\ CacheLive(mcqCache, HashOf(r), now)
     \/ req'[r].cached /\ ~req[r].cached)
    => /\ req[r].pc = "body" /\ CacheLive(mcqCache, HashOf(r), now)
       /\ req'[r].pc = "done" /\ req'[r].status = 200 /\ req'[r].cached
       /\ req'[r].mcqs = mcqCache[HashOf(r)].mcqs
       /\ ~req'[r].fetched /\ req'[r].incs = 0 /\ req'[r].globalIncs = 0
       /\ usageRows' = usageRows
       /\ globalUsageCount' = globalUsageCount

C4_CacheHit == [][\A r \in Requests : C4_Step(r)]_vars

\* A request was answered from the cache.
C4_Witness ==
    \E r \in Requests :
        Done(r) /\ req[r].status = 200 /\ req[r].cached /\ ~req[r].fetched

\* C5: a request whose snapshot has reached the daily limit of its tier never
\* gets to the cache lookup: it ends with 429, not with a cached answer.
C5_QuotaBeforeCache ==
    \A r \in Requests :
        (Checked(r) /\ req[r].usage.uploads_today >=
                           USER_LIMITS[req[r].subscription].daily_limit)
        => Done(r) /\ req[r].status = 429 /\ ~req[r].cached /\ ~req[r].fetched

\* A request was rejected with 429 while a live cache entry for its content
\* exists.
C5_Witness ==
    \E r \in Requests :
        /\ Done(r) /\ req[r].status = 429
        /\ CacheLive(mcqCache, HashOf(r), now)

\* C6: a request answered 429 was rejected by the per-user check; its answer
\* has remaining = 0 and limit_type = "daily", it issued no provider call and
\* wrote nothing to the user's row or the global count.
C6_Rejected429 ==
    \A r \in Requests :
        (Done(r) /\ req[r].status = 429) =>
            /\ req[r].usage.uploads_today >=
                   USER_LIMITS[req[r].subscription].daily_limit
            /\ req[r].remaining = 0 /\ req[r].limit_type = "daily"
            /\ ~req[r].fetched
            /\ req[r].incs = 0 /\ req[r].resets = 0 /\ req[r].globalIncs = 0

\* A FREE user with uploads_today = 5 (snapshot not stale) was answered 429
\* and the stored count is still 5.
C6_Witness ==
    \E r \in Requests :
        /\ Done(r) /\ req[r].status = 429 /\ req[r].subscription = "FREE"
        /\ ~req[r].readStale /\ req[r].usage.uploads_today = 5
        /\ usageRows[req[r].in.who].uploads_today = 5

\* C7 (the snapshot read): when the stored row is stale at the read, the
\* snapshot the TypeScript caller gets has uploads_today = 0 and
\* daily_reset_at at the next UTC midnight after the read, on the RPC path
\* and on the fallback query.
C7_StaleReadReset ==
    \A r \in Requests :
        (Checked(r) /\ req[r].readStale) =>
            /\ req[r].usage.uploads_today = 0
            /\ req[r].usage.daily_reset_at = NextMidnight(req[r].readAt)


ActiveIndexes(rows) == {i \in 1 .. Len(rows) : rows[i].status = "active"}

\* C8: getUserSubscription returns PRO exactly when the store answers without
\* error and the user has exactly one active row and that row's plan_type is
\* 'pro'; in every other case it returns FREE.
C8_ProOnlyOnSingleActivePro ==
    (unit.fn = "getUserSubscription" /\ unit.done) =>
        /\ unit.result \in {"FREE", "PRO"}
        /\ unit.result = "PRO" <=>
              /\ unit.outcome = "ok"
              /\ Cardinality(ActiveIndexes(unit.rows)) = 1
              /\ \A i \in ActiveIndexes(unit.rows) :
                    unit.rows[i].plan_type = "pro"

\* PRO was returned for a user with one active pro row.
C8_Witness ==
    /\ unit.fn = "getUserSubscription" /\ unit.done
    /\ unit.result = "PRO"
    /\ Cardinality(ActiveIndexes(unit.rows)) = 1

Is5xx(res) == res.status >= 500 /\ res.status <= 599
Is4xx(res) == res.status >= 400 /\ res.status <= 499

\* The waits 2000 * 1, ..., 2000 * n in milliseconds.
Backoff(n) == [k \in 1 .. n |-> 2000 * k]

\* C9: the provider call makes at most 3 attempts; it waits 2000 * k ms
\* before attempt k + 1 and does not wait after its last attempt; 5xx on
\* attempts 1 and 2 and a 200 with text on attempt 3 returns that text; 5xx
\* on all 3 attempts fails the call, and not before the third.
C9_BoundedRetry ==
    unit.fn = "callProvider" =>
        LET log == unit.log
            c == unit.call
            n == Len(log)
        IN  /\ n <= 3
            /\ c.waits = Backoff(IF c.outcome = "pending" THEN n ELSE n - 1)
            /\ (n = 3 /\ Is5xx(log[1]) /\ Is5xx(log[2])
                  /\ log[3].status = 200 /\ log[3].body = "text")
               => (c.outcome = "returned" /\ c.text = log[3].text)
            /\ (\A i \in 1 .. n : Is5xx(log[i]))
               => c.outcome = (IF n = 3 THEN "thrown" ELSE "pending")

\* 500, 500, then 200: the call returned the third answer's text.
C9_Witness ==
    /\ unit.fn = "callProvider"
    /\ Len(unit.log) = 3
    /\ Is5xx(unit.log[1]) /\ Is5xx(unit.log[2])
    /\ unit.log[3].status = 200 /\ unit.log[3].body = "text"
    /\ unit.call.outcome = "returned"
    /\ unit.call.waits = <<2000, 4000>>

\* C10: a 4xx answer fails the provider call at once: it is the call's last
\* attempt, and no wait follows it.
C10_NoRetryOn4xx ==
    unit.fn = "callProvider" =>
        \A i \in 1 .. Len(unit.log) :
            Is4xx(unit.log[i]) =>
                /\ i = Len(unit.log)
                /\ unit.call.outcome = "thrown"
                /\ Len(unit.call.waits) = i - 1

ValidMCQ(q) == q.options = 4 /\ q.answer_index \in 0 .. 3

AllValid(mcqs) == \A i \in 1 .. Len(mcqs) : ValidMCQ(mcqs[i])

\* C11: every MCQ of the mcqs array of a 200 response, fresh or cached, has
\* exactly 4 options and an answer index in 0 .. 3, and so has every MCQ of
\* every cache entry.
C11_OnlyValidMCQs ==
    /\ \A r \in Requests :
          (Done(r) /\ req[r].status = 200) => AllValid(req[r].mcqs)
    /\ \A h \in DOMAIN mcqCache :
          mcqCache[h].present => AllValid(mcqCache[h].mcqs)

\* C12: the parsers' result does not depend on the wrapping: an array A as
\* bare JSON, inside a fenced json block, or under the key mcqs of a JSON
\* object parses to A; text without an array fails.
C12_WrapIndependent ==
    (unit.fn = "parse" /\ unit.done) =>
        IF unit.raw.wrap \in {"array", "fenced", "object"}
        THEN unit.result = [ok |-> TRUE, mcqs |-> unit.raw.arr]
        ELSE ~unit.result.ok

\* C13: getCachedMCQs(f) returns the MCQs of the last cacheMCQs(f, m) exactly
\* when less than CACHE_DURATION has passed since that call, and null
\* otherwise: a stored entry is found while it is live, whatever was stored
\* or cleaned up in between, and no entry of age >= CACHE_DURATION is
\* returned.
C13_CacheRoundTrip ==
    (unit.fn = "cache" /\ unit.op = "lookup") =>
        LET s == unit.shadow[unit.key]
            live == s.present /\ (unit.at - s.timestamp) < CACHE_DURATION
        IN  /\ unit.result.hit <=> live
            /\ unit.result.hit => unit.result.mcqs = s.mcqs

\* A lookup CACHE_DURATION - 1 after the store of a key made by cacheMCQs
\* returned what was stored.
C13_Witness ==
    /\ unit.fn = "cache" /\ unit.op = "lookup" /\ unit.result.hit
    /\ unit.stores > 0
    /\ unit.shadow[unit.key].mcqs = <<BadMCQ>>
    /\ unit.at - unit.shadow[unit.key].timestamp = CACHE_DURATION - 1

\* C14: after a cacheMCQs call has completed the cache holds at most 1000
\* entries.
C14_CacheBounded ==
    unit.fn = "cache" => CacheSize(mcqCache) <= CACHE_MAX_ENTRIES

\* C15: a POST request that arrives while the global count has reached
\* MAX_GLOBAL_USAGE inside the current window is answered 503 with
\* global_usage.remaining = 0 in the step that receives it: the handler
\* returns before any read of the subscription or the usage row, no usage
\* increment, no cache access and no provider call happen.
C15_Step(r) ==
    (/\ req[r].pc = "idle" /\ req'[r].pc # "idle"
     /\ req'[r].in.method = "POST"
     /\ globalUsageCount >= MAX_GLOBAL_USAGE
     /\ now <= globalUsageResetTime)
    => /\ req'[r].pc = "done" /\ req'[r].status = 503
       /\ req'[r].globalUsage.remaining = 0
       /\ ~req'[r].fetched /\ req'[r].incs = 0 /\ req'[r].resets = 0
       /\ req'[r].globalIncs = 0
       /\ usageRows' = usageRows /\ mcqCache' = mcqCache
       /\ globalUsageCount' = globalUsageCount

C15_GlobalCeiling503 == [][\A r \in Requests : C15_Step(r)]_vars

\* A POST request with a bearer token was answered 503.
C15_Witness ==
    \E r \in Requests :
        /\ Done(r) /\ req[r].status = 503
        /\ req[r].in.method = "POST" /\ req[r].in.header = "Bearer"
        /\ req[r].in.who \in Users

\* C16: a POST request whose bearer token is missing, malformed or invalid is
\* answered 401, whatever the global count and the user counters are.
C16_AuthFirst ==
    \A r \in Requests :
        (/\ Done(r) /\ req[r].in.method = "POST"
         /\ (req[r].in.header # "Bearer" \/ req[r].in.who = NoUser))
        => req[r].status = 401

\* C17: outside development the body of a 500 response has no
\* raw_api_response, no status_code and none of the provider's text, so it
\* is the same whatever the provider's error body was.
C17_NoLeakInProduction ==
    (unit.fn = "catch" /\ unit.done /\ unit.environment # "development") =>
        /\ unit.body.raw_api_response = Absent
        /\ unit.body.status_code = 0
        /\ unit.body.error.text = <<>>

\* C18: when file_data decodes to more than 20 MB (length * 3 / 4 bytes),
\* callGeminiWithFileData throws before its first HTTP attempt: no answer is
\* ever received, no wait is made, and the call has failed.
C18_TooLargeNoAttempt ==
    (/\ unit.fn = "callGeminiWithFileData" /\ unit.started
     /\ unit.len * 3 > 4 * (20 * 1024 * 1024))
    => /\ unit.log = <<>>
       /\ unit.call.outcome = "thrown"
       /\ unit.call.waits = <<>>

\* The shortest file_data over the limit was refused.
C18_Witness ==
    /\ unit.fn = "callGeminiWithFileData" /\ unit.started
    /\ unit.len * 3 > 4 * (20 * 1024 * 1024)
    /\ (unit.len - 1) * 3 <= 4 * (20 * 1024 * 1024)
    /\ unit.call.outcome = "thrown" /\ unit.log = <<>>

\* C19: in every entry point the study material sent to the provider is at
\* most 2500 characters long and is a prefix of the submitted text; a text
\* of at most 2500 characters is sent unchanged.
C19_TruncatedPrefix ==
    (unit.fn = "buildRequest" /\ unit.done) =>
        /\ Len(unit.sent) <= 2500
        /\ Len(unit.sent) <= Len(unit.textContent)
        /\ unit.sent = SubSeq(unit.textContent, 1, Len(unit.sent))
        /\ Len(unit.textContent) <= 2500 => unit.sent = unit.textContent

\* C20: what checkUserLimits returned for a request is remaining =
\* daily_limit - uploads_today, at least 1, when it admitted, and remaining
\* = 0 when it rejected, with resetTime the snapshot's daily_reset_at either
\* way; the remaining a 200 or 429 response reports is never negative.
C20_RemainingFromSnapshot ==
    \A r \in Requests :
        /\ Checked(r) =>
              LET lim == req[r].userLimits
                  limit == IF req[r].subscription = "FREE" THEN 5 ELSE 50
              IN  /\ lim.allowed =>
                        /\ lim.remaining = limit - req[r].usage.uploads_today
                        /\ lim.remaining >= 1
                  /\ ~lim.allowed => lim.remaining = 0
                  /\ lim.resetTime = req[r].usage.daily_reset_at
        /\ (Done(r) /\ req[r].status \in {200, 429}) => req[r].remaining >= 0

\* A user one upload short of the limit generated MCQs: the 200 response
\* reports remaining = 0.
C20_Witness ==
    \E r \in Requests :
        /\ Done(r) /\ req[r].status = 200 /\ ~req[r].cached
        /\ req[r].userLimits.remaining = 1 /\ req[r].remaining = 0

\* C21: when the subscription lookup fails (the store reports an error or
\* the client throws) the request is not ended: it goes on to the per-user
\* check, and that check applies the FREE limit of 5 whatever rows the user
\* has.
C21_LookupFailureIsFree ==
    (unit.fn = "gate" /\ unit.outcome # "ok" /\ unit.rq.pc # "sub") =>
        /\ unit.rq.subscription = "FREE"
        /\ unit.rq.status \in {0, 429}
        /\ unit.rq.pc = "done" =>
              /\ unit.rq.status = 429 /\ unit.usage.uploads_today >= 5
              /\ unit.rq.userLimits.remaining = 0
        /\ unit.rq.pc = "body" =>
              /\ unit.usage.uploads_today < 5
              /\ unit.rq.userLimits.allowed
              /\ unit.rq.userLimits.remaining = 5 - unit.usage.uploads_today
        /\ unit.rq.pc \in {"usage", "body", "done"}

\* The lookup of a user with one active pro row threw, and the request was
\* admitted by the per-user check with the FREE limit.
C21_Witness ==
    /\ unit.fn = "gate" /\ unit.outcome = "throw"
    /\ unit.rows = <<Sub("pro", "active")>>
    /\ unit.rq.pc = "body" /\ unit.rq.subscription = "FREE"
    /\ unit.rq.userLimits.remaining = 1

\* C22: while a reset window lasts (now < daily_reset_at of the stored row)
\* no step lowers the stored uploads_today, whatever calls of the SQL
\* functions and of the fallback update overlap; it drops only in a step
\* taken when now >= daily_reset_at.
C22_MonotoneInWindow ==
    [][usageRows'.u1.uploads_today < usageRows.u1.uploads_today
          => now >= usageRows.u1.daily_reset_at]_vars

SessionsIdle == \A s \in Sessions : unit.ses[s].op = "none"

\* C24: for a user whose stored row is stale at T0, once the overlapping
\* calls of increment_upload_count and get_user_usage_stats made in the new
\* window have all returned, uploads_today (0 while the row is still stale)
\* is the number of increment calls that completed.
C24_LazyResetAtomic ==
    (/\ unit.fn = "usage" /\ SessionsIdle
     /\ Stale(unit.start, T0)
     /\ unit.ops.u1 \subseteq {"increment_upload_count", "get_user_usage_stats"}
     /\ now < T0 + DAY)
    => Logical(usageRows.u1, now) = unit.incs.u1

\* C25: when only the fallback of incrementUserUsage has run, once its
\* calls have all returned, uploads_today is its value at T0 plus the number
\* of calls, overlapping or not.
C25_FallbackAddsOne ==
    (/\ unit.fn = "usage" /\ SessionsIdle
     /\ unit.ops.u1 \subseteq {"fallback"}
     /\ now < T0 + DAY)
    => Logical(usageRows.u1, now) = baseline.u1 + unit.incs.u1

IsMidnight(t) == t % DAY = 0

\* C23: a step that writes a user's row leaves daily_reset_at at a UTC
\* midnight later than the time of the step, and a 200 or 429 response of a
\* request that wrote the row reports that stored daily_reset_at as its
\* reset time.
C23_Step(r) ==
    LET u == req[r].in.who
    IN  /\ (u \in Users /\ usageRows'[u] # usageRows[u]) =>
              /\ IsMidnight(usageRows'[u].daily_reset_at)
              /\ usageRows'[u].daily_reset_at > now
        /\ (/\ req[r].pc # "done" /\ req'[r].pc = "done"
            /\ req'[r].status \in {200, 429}
            /\ req'[r].incs + req'[r].resets > 0)
           => req'[r].userLimits.resetTime = usageRows'[u].daily_reset_at

C23_ResetAtNextMidnight == [][\A r \in Requests : C23_Step(r)]_vars

\* C26: checkGlobalUsage called at now >= globalUsageResetTime, the instant
\* of the reset time included, sets the count to 0 and the reset time to
\* now + 30 days and admits the request, whatever the old count was.
C26_GlobalLazyReset ==
    (/\ unit.fn = "global" /\ unit.last.op = "check"
     /\ unit.last.at >= unit.last.before.resetTime)
    => /\ globalUsageCount = 0
       /\ globalUsageResetTime = unit.last.at + GLOBAL_WINDOW
       /\ unit.last.result.allowed
       /\ unit.last.result.remaining = MAX_GLOBAL_USAGE

\* The requests that called incrementGlobalUsage: those past the parse of
\* the provider's text, which all end with a 200 non-cached response.
Committed(r) ==
    Incrementing(r) \/ (Done(r) /\ req[r].status = 200 /\ ~req[r].cached)

\* C27: the global count is the count the instance started with plus one
\* for every request that got to its 200 non-cached response; a request
\* that ended with any other outcome (405, 401, 400, 429, 503, 500, or a
\* cache hit) added nothing.
C27_GlobalCountsGenerations ==
    /\ globalUsageCount =
          (MAX_GLOBAL_USAGE - 1) + Cardinality({r \in Requests : Committed(r)})
    /\ \A r \in Requests :
          /\ req[r].globalIncs = IF Committed(r) THEN 1 ELSE 0
          /\ Incrementing(r) => req[r].gen = "array"

\* One request ended with a fresh 200 response, the other with 500, and the
\* count went up by one.
C27_Witness ==
    /\ \E r \in Requests : Done(r) /\ req[r].status = 200 /\ ~req[r].cached
    /\ \E r \in Requests : Done(r) /\ req[r].status = 500
    /\ globalUsageCount = MAX_GLOBAL_USAGE

\* C28: the global count never exceeds MAX_GLOBAL_USAGE, also when several
\* requests are in flight at once.
C28_GlobalCeilingHolds == globalUsageCount <= MAX_GLOBAL_USAGE

\* C30: while all requests started within CACHE_DURATION of each other, at
\* most one request per fingerprint has issued a provider call and at most
\* one has advanced a user's uploads_today.
C30_Deduplicated ==
    now < T0 + CACHE_DURATION =>
        \A h \in Hashes :
            /\ Cardinality({r \in Requests :
                               req[r].fetched /\ HashOf(r) = h}) <= 1
            /\ Cardinality({r \in Requests :
                               req[r].incs > 0 /\ HashOf(r) = h}) <= 1

\* The tier the stored subscription rows give a user.
TierOf(u) == getUserSubscription(subRows[u], "ok")

\* C29, for requests that do not overlap (K = 1): a user's stored
\* uploads_today never exceeds the daily limit of the user's tier.
C29_NoOvershootWhenSerial ==
    \A u \in Users :
        usageRows[u].uploads_today <= USER_LIMITS[TierOf(u)].daily_limit

\* C31: in every generation entry point, the provider is called only after
\* the per-user quota check admitted the request: no provider call is issued
\* for a user whose uploads_today has reached the daily limit of the user's
\* subscription.
C31_CallOnlyAfterQuota ==
    (unit.fn = "entry" /\ unit.rq.fetched) =>
        unit.usage.uploads_today
            < USER_LIMITS[unit.rq.subscription].daily_limit

\* The array C32 names for a parsed object: the value under the first key of
\* possibleKeys that holds an array, else the first array-valued property
\* in object order.
HasExpectedArray(obj) == ArrayValues(obj) # {}

ExpectedArray(obj) ==
    IF KeysWithArray(obj) # {} THEN ArrayByKeys(obj) ELSE ArrayByOrder(obj)

\* C32: when the provider output parses to an object, the array taken from
\* it is the one under the first key of mcqs, questions, items, data,
\* results, array that holds an array, whatever the order of the
\* properties; the first array-valued property in object order is taken
\* only when none of these keys holds an array.
C32_PriorityKeyChosen ==
    (unit.fn = "parseObject" /\ unit.done /\ unit.result.ok) =>
        /\ HasExpectedArray(unit.obj)
        /\ unit.result.mcqs = ExpectedArray(unit.obj)

NetworkFailure == Response(0, "error", EmptyArrayLiteral)

\* The call state without the kind of the error it carries.
Handling(c) == [c EXCEPT !.error = "none"]

\* C33: an attempt that ends in a network failure (fetch throws) is handled
\* as a 5xx answer is: before the last attempt the call waits
\* 2000 * attempt ms and tries again, and the error reaches the caller only
\* from the third failed attempt.
C33_NetworkFailureLike5xx ==
    unit.fn = "callProvider" =>
        LET log == unit.log
            c == unit.call
            n == Len(log)
        IN  /\ \A i \in 1 .. n :
                 log[i].status = 0 =>
                    IF i < MAX_RETRIES
                    THEN /\ Len(c.waits) >= i
                         /\ c.waits[i] = BACKOFF_MS * i
                         /\ (i = n => c.outcome = "pending")
                    ELSE /\ c.outcome = "thrown"
                         /\ c.waits = Backoff(MAX_RETRIES - 1)
            /\ c.outcome = "pending" =>
                 \A res \in {x \in ProviderResponses : Is5xx(x)} :
                    Handling(ProviderAttempt(c, NetworkFailure))
                        = Handling(ProviderAttempt(c, res))

\* Three network failures: two waits, then the call threw.
C33_Witness ==
    /\ unit.fn = "callProvider"
    /\ Len(unit.log) = 3
    /\ \A i \in 1 .. 3 : unit.log[i].status = 0
    /\ unit.call.outcome = "thrown"
    /\ unit.call.error = "fetch"
    /\ unit.call.waits = <<2000, 4000>>

\* C34: a 2xx provider answer without the expected text field makes the
\* provider call return the string "[]" instead of failing, and the
\* request then ends with a 200 response whose mcqs array is empty
\* (count = 0).
C34_MissingFieldGivesEmpty ==
    (unit.fn = "answer" /\ unit.nofield) =>
        IF unit.rq.pc = "fetch"
        THEN /\ unit.rq.call.outcome = "returned"
             /\ unit.rq.call.text = EmptyArrayLiteral
        ELSE /\ unit.rq.pc = "done"
             /\ unit.rq.status = 200
             /\ Len(unit.rq.mcqs) = 0

\* A request answered after a provider answer without the text field.
C34_Witness ==
    /\ unit.fn = "answer"
    /\ unit.nofield
    /\ unit.rq.pc = "done"
    /\ unit.rq.status = 200

\* C35 as stated: quota is consumed only for a non-empty result: a request
\* that incremented the user's uploads_today returns a 200 response whose
\* mcqs array has at least one element.
C35_NonEmptyResult ==
    \A r \in Requests :
        req[r].incs > 0 =>
            (Done(r) /\ req[r].status = 200 /\ Len(req[r].mcqs) >= 1)

\* C35, amended: quota is consumed only for a parsed result: a request that
\* incremented the user's uploads_today returns a 200 non-cached response
\* whose mcqs is the array parsed from the provider's text, which may be
\* empty.
C35_ParsedResult ==
    \A r \in Requests :
        req[r].incs > 0 =>
            /\ Done(r) /\ req[r].status = 200 /\ ~req[r].cached
            /\ req[r].gen = "array"
            /\ mcqCache[HashOf(r)].present
            /\ mcqCache[HashOf(r)].mcqs = req[r].mcqs

\* A request that consumed quota and returned an empty array.
C35_Witness ==
    \E r \in Requests :
        /\ req[r].incs > 0
        /\ Done(r) /\ req[r].status = 200
        /\ req[r].mcqs = <<>>

\* C36: with a store and a provider that always eventually answer or fail,
\* every received request reaches a terminal response, exactly one, and
\* takes no step after it; the retry loop of the provider call leaves by a
\* return or by a raise, so the request never stays in the call after the
\* last attempt.
C36_Terminates ==
    /\ (req[1].pc # "idle") ~> Done(1)
    /\ [][Done(1) => req'[1] = req[1]]_vars
    /\ [](req[1].pc = "fetch" => req[1].call.attempt <= MAX_RETRIES)

\* The request ended 500 after the provider call gave up.
C36_Witness ==
    /\ Done(1)
    /\ req[1].status = 500
    /\ req[1].gen = "failed"

ReadFunctions == {"get_user_usage_stats",
                  "check_and_reset_daily_uploads_on_login"}

\* Session s returns from its call in this step.
Returns(s) == unit.ses[s].op # "none" /\ unit'.ses[s].op = "none"

\* The call of session s found the user's row inside its window
\* (now < daily_reset_at) when it began.
BeganFresh(s) ==
    unit.ses[s].has_row /\ unit.ses[s].now_time < unit.ses[s].current_reset_at

\* C37: a call of get_user_usage_stats or of
\* check_and_reset_daily_uploads_on_login that begins when
\* now < daily_reset_at leaves the user's uploads_today and daily_reset_at
\* as they are, and a step that changes a user's row is the step of a call
\* made for that user.
C37_Step ==
    /\ \A s \in Sessions :
         (Returns(s) /\ unit.ses[s].op \in ReadFunctions /\ BeganFresh(s))
            => usageRows' = usageRows
    /\ \A u \in Users :
         usageRows'[u] # usageRows[u] =>
            \E s \in Sessions : Returns(s) /\ unit.ses[s].user = u

C37_ReadsDoNotWrite == [][unit.fn = "usage" => C37_Step]_vars

\* A read of u1's row inside its window has returned, and a call for u2
\* has advanced u2's row, with u1's row as it was at T0.
C37_Witness ==
    /\ unit.fn = "usage"
    /\ unit.ops.u1 \in SUBSET ReadFunctions /\ unit.ops.u1 # {}
    /\ \A s \in Sessions : unit.ses[s].op = "none"
    /\ ~Stale(unit.start, T0) /\ usageRows.u1 = unit.start
    /\ usageRows.u2.uploads_today = 50

\* C38: when the usage-stats RPC and its fallback query both fail, or the
\* user has no usage row, getUserUsageStatsFromDB reports uploads_today = 0
\* and checkUserLimits admits the request with remaining = daily_limit,
\* whatever count is stored for the user.
C38_FailedReadAdmits ==
    (/\ unit.fn = "snapshot" /\ unit.rq.pc # "usage"
     /\ \/ (unit.rpc = "error" /\ unit.fallback = "error")
        \/ ~unit.row.exists)
    => /\ unit.rq.usage.uploads_today = 0
       /\ unit.rq.pc = "body"
       /\ unit.rq.userLimits.allowed
       /\ unit.rq.userLimits.remaining
             = USER_LIMITS[unit.rq.subscription].daily_limit

\* A free user with 5 uploads stored, admitted after both reads failed.
C38_Witness ==
    /\ unit.fn = "snapshot"
    /\ unit.row = Row(5, T0 + DAY) /\ unit.rq.subscription = "FREE"
    /\ unit.rpc = "error" /\ unit.fallback = "error"
    /\ unit.rq.pc = "body"
    /\ unit.rq.userLimits.remaining = 5

\* C39: incrementUserUsage never raises. A request inside incrementUserUsage
\* either goes on inside it or ends with a 200 response that reports
\* remaining - 1, and when its call ends without an increment (the RPC
\* failed and the fallback read found no row or failed, the client threw,
\* or the RPC updated no row because the user has none) the stored rows
\* are as they were.
C39_Step(r) ==
    (Incrementing(r) /\ req'[r] # req[r]) =>
        /\ \/ req'[r].pc \in {"inc", "inc_sql", "inc_fallback", "inc_write"}
           \/ /\ req'[r].pc = "done"
              /\ req'[r].status = 200
              /\ req'[r].remaining = req[r].userLimits.remaining - 1
        /\ req'[r].incs = req[r].incs => usageRows' = usageRows

C39_IncrementNeverRaises == [][\A r \in Requests : C39_Step(r)]_vars

\* A request of a user with 4 uploads stored ended 200 reporting
\* remaining = 0 without an increment: the row still holds 4.
C39_Witness ==
    /\ Done(1) /\ req[1].status = 200 /\ ~req[1].cached
    /\ req[1].incs = 0 /\ req[1].resets = 0
    /\ req[1].in.who = "u1"
    /\ req[1].remaining = 0
    /\ usageRows.u1 = Row(4, T0 + DAY)

\* C40: the subscription sync passes is_pro_active = true to
\* sync_user_subscription only when the RevenueCat API itself confirmed a
\* pro entitlement that will renew or has not expired; entitlement data
\* from the request body never makes is_pro_active true on its own.
C40_ProOnlyWhenVerified ==
    (unit.fn = "sync" /\ unit.stage = "synced" /\ unit.is_pro_active) =>
        /\ unit.secret_key
        /\ unit.answer.kind = "ok"
        /\ EntitlementActive(unit.answer.pro)

====
